---- MODULE Spec2Model ----
(***************************************************************************)
(* Model of the planner's input pipeline (src/app/routers/input.py), the   *)
(* intent parser (src/app/services/intent.py), the module handlers         *)
(* (src/app/modules/*.py) and the dashboard task operations                *)
(* (src/app/routers/dashboard.py).                                         *)
(*                                                                         *)
(* Python values that come out of json.loads are modelled as tagged        *)
(* records, so that a handler can find a number, a string or null where it *)
(* expects an object, exactly as the Python code can.                      *)
(***************************************************************************)
EXTENDS Integers, Sequences, FiniteSets, TLC

\* ------------------------------------------------------------------ bounds
\* Number of operations (pipeline requests, POST /api/v1/input, and dashboard
\* task calls) that one behaviour performs on top of its initial database.
MaxOps == 2
\* The number of handler invocations in a behaviour of SpecHandlers.
MaxCalls == 2

\* Requests started by the two workers of the concurrent specification.
MaxRequests == 2
\* The calls (handler calls, dashboard calls, passings of time) of a behaviour
\* of SpecDashboard.
MaxDashOps == 3

\* The users of the system (rows of the users table).  User 1 is the one whose
\* pipeline requests are followed; user 2 owns tasks and uses the dashboard.
Users == {1, 2}
PipelineUsers == {1}

\* --------------------------------------------------------- Python values
JNull == [t |-> "null"]
JNum(n) == [t |-> "num", n |-> n]
JStr(s) == [t |-> "str", s |-> s]
JList(q) == [t |-> "list", items |-> q]
JObj(f) == [t |-> "dict", kv |-> f]
EmptyDict == JObj(<<>>)
EmptyList == JList(<<>>)

IsDict(v) == v.t = "dict"
IsList(v) == v.t = "list"
IsStr(v) == v.t = "str"

\* dict.get(key, default): the value stored under key (null included) or default.
Get(d, key, default) == IF key \in DOMAIN d.kv THEN d.kv[key] ELSE default

\* Python truthiness of a value: None, 0, "", [] and {} are falsy.
Truthy(v) ==
    CASE v.t = "null" -> FALSE
      [] v.t = "num" -> v.n # 0
      [] v.t = "str" -> v.s # ""
      [] v.t = "list" -> v.items # <<>>
      [] v.t = "dict" -> DOMAIN v.kv # {}

\* str.lower() on the labels the model's inputs use.
Lower(s) ==
    CASE s = "Errands" -> "errands"
      [] s = "ERRANDS" -> "errands"
      [] s = "Passwords" -> "passwords"
      [] s = "Dogs" -> "dogs"
      [] s = "General" -> "general"
      [] OTHER -> s

\* --------------------------------------------------------------- storage
\* The database: one sequence of rows per table.  Ids are assigned by the
\* database on insert (one more than the largest id of the table).
EmptyDb == [entries |-> <<>>, tasks |-> <<>>, remember |-> <<>>,
            journal |-> <<>>, calendar |-> <<>>]

Ids(table) == {table[i].id : i \in 1..Len(table)}
NextId(table) ==
    IF table = <<>> THEN 1
    ELSE (CHOOSE m \in Ids(table) : \A n \in Ids(table) : n <= m) + 1
Row(table, id) == table[CHOOSE i \in 1..Len(table) : table[i].id = id]

\* Entry(...) followed by db.add, db.commit, db.refresh: the stored row.
NewEntry(db, user, module) ==
    [id |-> NextId(db.entries), user_id |-> user, module |-> module, deleted_at |-> 0]

\* Column defaults of the tasks table for the columns a constructor call leaves
\* out (completed_at is optional in the data model and starts unset).
TaskColumnDefaults == [completed_at |-> 0]

\* Task(entry_id=..., group=..., priority=..., due_date=..., status="open") and
\* its insert.  due_date "" stands for None.
NewTask(db, entry_id, group, priority, due_date) ==
    [id |-> NextId(db.tasks), entry_id |-> entry_id, group |-> group,
     priority |-> priority, due_date |-> due_date, status |-> "open",
     completed_at |-> TaskColumnDefaults.completed_at]

\* db.query(X).join(Entry).filter(Entry.user_id == user.id): the rows of a
\* sub-entity table whose entry exists and belongs to the user.
OwnedBy(db, row, user) ==
    row.entry_id \in Ids(db.entries) /\ Row(db.entries, row.entry_id).user_id = user

\* A label query over the rows of every user.
DistinctLabels_AllUsers(db, table, column, user) ==
    {table[i][column] : i \in {j \in 1..Len(table) : Truthy(table[j][column])}}

\* The distinct truthy labels of one column over the user's rows (a set: the
\* order in which the database returns DISTINCT values is not specified).
DistinctLabels(db, table, column, user) ==
    {table[i][column] : i \in {j \in 1..Len(table) :
        OwnedBy(db, table[j], user) /\ Truthy(table[j][column])}}

\* Every order in which the rows of a result set can come back.
Orders(S) == {q \in [1..Cardinality(S) -> S] : \A x \in S : \E i \in DOMAIN q : q[i] = x}

\* What a handler hands back to the dispatch loop: either it raised (reason),
\* or it returned an InputResponse (spoken_response, entry_id).  db is the
\* database as the handler left it; trace lists the label resolutions it made.
Raised(db, reason, trace) ==
    [raised |-> TRUE, reason |-> reason, db |-> db, spoken_response |-> JNull,
     entry_id |-> 0, trace |-> trace]
\* return InputResponse(spoken_response=..., entry_id=..., module=...): the
\* schema declares spoken_response a str, and constructing the response with
\* another value raises a validation error inside the handler.
Returned(db, spoken, entry_id, trace) ==
    IF ~IsStr(spoken) THEN Raised(db, "ValidationError", trace)
    ELSE [raised |-> FALSE, reason |-> "", db |-> db, spoken_response |-> spoken,
          entry_id |-> entry_id, trace |-> trace]

\* for x in v: the elements a for loop visits.  A list yields its items; an
\* empty string or dict yields nothing; None and numbers are not iterable, and
\* the elements of a non-empty string or dict are strings, on which the loop
\* bodies below call .get and raise before any other effect.
Iterable(v) == IsList(v) \/ (v.t \in {"str", "dict"} /\ ~Truthy(v))
ItemsOf(v) == IF IsList(v) THEN v.items ELSE <<>>

\* ----------------------------------------------------------- handle_memo
\* A store handler that writes over the newest Record of the user when there
\* is one, instead of inserting.
handle_memo_Overwrites(user, raw_input, intent_data, db) ==
    LET module == Get(intent_data, "module", JStr("memo"))
        data == Get(intent_data, "data", EmptyDict)
        own == {i \in 1..Len(db.entries) : db.entries[i].user_id = user}
    IN  IF ~IsDict(data) THEN Raised(db, "AttributeError", <<>>)
        ELSE IF own = {}
        THEN LET entry == NewEntry(db, user, module)
                 db1 == [db EXCEPT !.entries = Append(@, entry)]
             IN  Returned(db1, Get(intent_data, "spoken_response", JStr("Saved.")),
                          entry.id,
                          <<[dim |-> "memo", entry |-> entry.id,
                             module_data |-> IF Truthy(data) THEN data ELSE JNull]>>)
        ELSE LET i == CHOOSE x \in own : \A y \in own : y <= x
                 entry == [NewEntry(db, user, module) EXCEPT !.id = db.entries[i].id]
                 db1 == [db EXCEPT !.entries[i] = entry]
             IN  Returned(db1, Get(intent_data, "spoken_response", JStr("Saved.")),
                          entry.id,
                          <<[dim |-> "memo", entry |-> entry.id,
                             module_data |-> IF Truthy(data) THEN data ELSE JNull]>>)

handle_memo(user, raw_input, intent_data, db) ==
    LET module == Get(intent_data, "module", JStr("memo"))
        data == Get(intent_data, "data", EmptyDict)
    IN  IF ~IsDict(data) THEN Raised(db, "AttributeError", <<>>)
        ELSE LET entry == NewEntry(db, user, module)
                 db1 == [db EXCEPT !.entries = Append(@, entry)]
             IN  Returned(db1, Get(intent_data, "spoken_response", JStr("Saved.")),
                          entry.id,
                          <<[dim |-> "memo", entry |-> entry.id,
                             module_data |-> IF Truthy(data) THEN data ELSE JNull]>>)

\* -------------------------------------------------------- _create_tasks
\* A resolution loop without the break: the last matching label wins.
RECURSIVE group_loop_LastWins(_, _)
group_loop_LastWins(existing_group_names, group) ==
    IF existing_group_names = <<>> THEN [raised |-> FALSE, label |-> group]
    ELSE LET existing == Head(existing_group_names)
             rest == group_loop_LastWins(Tail(existing_group_names), group)
         IN  IF ~IsStr(existing) \/ ~IsStr(group)
             THEN [raised |-> TRUE, label |-> group]
             ELSE IF rest.raised \/ rest.label # group THEN rest
                  ELSE IF Lower(existing.s) = Lower(group.s)
                       THEN [raised |-> FALSE, label |-> existing]
                       ELSE rest

\* A resolution loop that compares the spellings as they are.
RECURSIVE group_loop_ExactCase(_, _)
group_loop_ExactCase(existing_group_names, group) ==
    IF existing_group_names = <<>> THEN [raised |-> FALSE, label |-> group]
    ELSE LET existing == Head(existing_group_names)
         IN  IF ~IsStr(existing) \/ ~IsStr(group)
             THEN [raised |-> TRUE, label |-> group]
             ELSE IF existing.s = group.s
                  THEN [raised |-> FALSE, label |-> existing]
                  ELSE group_loop_ExactCase(Tail(existing_group_names), group)

\* for existing in existing_group_names: if existing.lower() == group.lower():
\* group = existing; break.  lower() raises on a value that is not a str.
RECURSIVE group_loop(_, _)
group_loop(existing_group_names, group) ==
    IF existing_group_names = <<>> THEN [raised |-> FALSE, label |-> group]
    ELSE LET existing == Head(existing_group_names)
         IN  IF ~IsStr(existing) \/ ~IsStr(group)
             THEN [raised |-> TRUE, label |-> group]
             ELSE IF Lower(existing.s) = Lower(group.s)
                  THEN [raised |-> FALSE, label |-> existing]
                  ELSE group_loop(Tail(existing_group_names), group)

\* A snapshot that is never extended with the labels the batch introduces.
AppendIfNew_Never(names, x) == names

\* if x not in names: names.append(x)
AppendIfNew(names, x) ==
    IF \E i \in 1..Len(names) : names[i] = x THEN names ELSE Append(names, x)

\* priority = task_data.get("priority", default_priority)
task_priority(task_data, default_priority) == Get(task_data, "priority", default_priority)

\* datetime.fromisoformat(s): the strings it accepts, among those of this
\* model.  Any other string raises ValueError, a value that is no string
\* TypeError.
IsoValid(v) ==
    IsStr(v) /\ v.s \in {"2026-02-18T14:00:00", "2026-02-18T15:00:00", "2026-02-20"}

\* A parse that keeps whatever string the payload carries.
due_date_of_Unchecked(task_data) ==
    LET due == Get(task_data, "due", JNull) IN
    IF Truthy(due) /\ IsStr(due) THEN due.s ELSE ""

\* due_date = None; if task_data.get("due"): try: due_date =
\* datetime.fromisoformat(task_data["due"]) except (ValueError, TypeError): pass
due_date_of(task_data) ==
    LET due == Get(task_data, "due", JNull) IN
    IF Truthy(due) /\ IsoValid(due) THEN due.s ELSE ""

\* The body of "for task_data in tasks_data", folded over the list.  st holds
\* the loop's variables: db, names (existing_group_names), created, first_entry_id.
RECURSIVE create_tasks_loop(_, _, _, _, _)
create_tasks_loop(user, tasks_data, default_group, default_priority, st) ==
    IF tasks_data = <<>> \/ st.raised THEN st
    ELSE
    LET task_data == Head(tasks_data) IN
    IF ~IsDict(task_data) THEN [st EXCEPT !.raised = TRUE, !.reason = "AttributeError"]
    ELSE
    LET r == group_loop(st.names, Get(task_data, "group", default_group)) IN
    IF r.raised THEN [st EXCEPT !.raised = TRUE, !.reason = "AttributeError"]
    ELSE
    LET group == r.label
        entry == NewEntry(st.db, user, JStr("task"))
        db1 == [st.db EXCEPT !.entries = Append(@, entry)]
        task == NewTask(db1, entry.id, group, task_priority(task_data, default_priority),
                        due_date_of(task_data))
        db2 == [db1 EXCEPT !.tasks = Append(@, task)]
        names2 == AppendIfNew(st.names, group)
        step == [dim |-> "group", snapshot |-> st.names,
                 candidate |-> Get(task_data, "group", default_group),
                 result |-> group, after |-> names2, row |-> task.id,
                 item |-> task_data]
    IN  create_tasks_loop(user, Tail(tasks_data), default_group, default_priority,
            [st EXCEPT !.db = db2, !.names = names2,
                       !.created = Append(@, task),
                       !.first_entry_id = IF @ = 0 THEN entry.id ELSE @,
                       !.trace = Append(@, step)])

\* The priority a payload without one falls back to (data.get("priority", ...)).
default_priority_of(data) == Get(data, "priority", JStr("keep_in_mind"))

\* order: the order in which the database returned the user's distinct groups.
_create_tasks(user, raw_input, intent_data, db, order) ==
    LET data == Get(intent_data, "data", EmptyDict) IN
    IF ~IsDict(data) THEN Raised(db, "AttributeError", <<>>)
    ELSE
    LET tasks_data0 == Get(data, "tasks", EmptyList)
        default_group == Get(data, "group", JStr("General"))
        default_priority == default_priority_of(data)
        tasks_data ==
            IF ~Truthy(tasks_data0) /\ Truthy(Get(data, "description", JNull))
            THEN JList(<<JObj([description |-> data.kv["description"],
                               group |-> Get(data, "group", default_group),
                               priority |-> Get(data, "priority", default_priority),
                               due |-> Get(data, "due", JNull)])>>)
            ELSE tasks_data0
    IN
    IF ~Iterable(tasks_data) THEN Raised(db, "TypeError", <<>>)
    ELSE
    LET st0 == [raised |-> FALSE, reason |-> "", db |-> db, names |-> order,
                created |-> <<>>, first_entry_id |-> 0, trace |-> <<>>]
        st == create_tasks_loop(user, ItemsOf(tasks_data), default_group,
                                default_priority, st0)
    IN
    IF st.raised THEN Raised(st.db, st.reason, st.trace)
    ELSE IF Len(st.created) = 1 /\ ~IsStr(st.created[1].priority)
    THEN Raised(st.db, "AttributeError", st.trace)
    ELSE LET response ==
                 IF Len(st.created) = 1 THEN JStr("Added task.")
                 ELSE JStr("Added " \o ToString(Len(st.created)) \o " tasks.")
         IN  Returned(st.db, Get(intent_data, "spoken_response", response),
                      st.first_entry_id, st.trace)

\* ------------------------------------------------------------ json.loads
\* The texts the language model returns in this model, and what json.loads
\* makes of each.  DecodeError stands for json.JSONDecodeError being raised.
DecodeError == [t |-> "JSONDecodeError"]

\* What a call of client.messages.create can do: fail (network error, timeout,
\* non-2xx) or return a text.
CallFailed == [failed |-> TRUE, text |-> ""]
CallReturned(text) == [failed |-> FALSE, text |-> text]

\* Task specs, items and activities used by the classifier outputs below.
TaskMilk == JObj([description |-> JStr("buy milk"), group |-> JStr("errands")])
TaskLetter == JObj([description |-> JStr("post letter"), group |-> JStr("Errands"),
                    priority |-> JStr("urgent")])
TaskDog == JObj([description |-> JStr("walk the dog"), group |-> JStr("ERRANDS"),
                 priority |-> JStr("do_today")])
ItemWifi == JObj([content |-> JStr("wifi is blue42"), category |-> JStr("passwords")])
ItemSafe == JObj([content |-> JStr("safe code 1234"), category |-> JStr("Passwords")])
ActWalk == JObj([content |-> JStr("walked the dog"), topic |-> JStr("dogs")])
ActVet == JObj([content |-> JStr("took the dog to the vet"), topic |-> JStr("Dogs")])

IntentCreateTwo ==
    JObj([module |-> JStr("task"), title |-> JStr("Errands"),
          data |-> JObj([action |-> JStr("create"),
                         tasks |-> JList(<<TaskMilk, TaskLetter>>)])])
IntentCreateDog ==
    JObj([module |-> JStr("task"),
          data |-> JObj([action |-> JStr("create"), tasks |-> JList(<<TaskDog>>)])])
IntentCreateBroken ==
    JObj([module |-> JStr("task"),
          data |-> JObj([action |-> JStr("create"),
                         tasks |-> JList(<<TaskLetter, JNum(7)>>)])])
IntentCreateNone ==
    JObj([module |-> JStr("task"),
          data |-> JObj([action |-> JStr("create"), tasks |-> JList(<<>>)])])
IntentComplete ==
    JObj([module |-> JStr("task"),
          data |-> JObj([action |-> JStr("complete"),
                         completed |-> JList(<<JStr("buy milk")>>)])])
IntentRemember ==
    JObj([module |-> JStr("remember"), spoken_response |-> JStr("Noted."),
          data |-> JObj([items |-> JList(<<ItemWifi, ItemSafe>>)])])
IntentJournal ==
    JObj([module |-> JStr("journal"),
          data |-> JObj([activities |-> JList(<<ActWalk, ActVet>>)])])
IntentMood ==
    JObj([module |-> JStr("mood"), spoken_response |-> JStr("Logged your mood."),
          data |-> JObj([rating |-> JNum(7)])])
IntentMemoNullData == JObj([module |-> JStr("memo"), data |-> JNull])
IntentLegacy ==
    JObj([module |-> JStr("memo"), data |-> JObj([content |-> JStr("call mum")])])
\* A completion that carries its own confirmation; a tag that is in no table, an
\* intent without a tag; a tag that is a JSON array.
IntentCompleteSpoken ==
    JObj([module |-> JStr("task"), spoken_response |-> JStr("Marked buy milk as done."), data |-> JObj([action |-> JStr("complete"), completed |-> JList(<<JStr("buy milk")>>)])])
IntentShopping ==
    JObj([module |-> JStr("shopping"), data |-> JObj([content |-> JStr("bread and eggs")])])
IntentUntagged ==
    JObj([title |-> JStr("Note"), data |-> JObj([content |-> JStr("call mum")])])
IntentListTag ==
    JObj([module |-> JList(<<JStr("task"), JStr("memo")>>), data |-> JObj([content |-> JStr("call mum")])])

RawNotJson == "Sure! Here is the JSON you asked for"
RawNumber ==
    "42"
RawIntentsNull ==
    "{\"intents\": null}"
RawIntentsEmpty ==
    "{\"intents\": []}"
RawBareEmpty ==
    "[]"
RawLegacy ==
    "{\"module\": \"memo\", \"data\": {\"content\": \"call mum\"}}"
RawCreateTwo ==
    "{\"intents\": [{\"module\": \"task\", \"title\": \"Errands\", \"data\": {\"action\": \"create\", \"tasks\": [{\"description\": \"buy milk\", \"group\": \"errands\"}, {\"description\": \"post letter\", \"group\": \"Errands\", \"priority\": \"urgent\"}]}}]}"
RawCreateCreate ==
    "{\"intents\": [{\"module\": \"task\", \"data\": {\"action\": \"create\", \"tasks\": [{\"description\": \"walk the dog\", \"group\": \"ERRANDS\", \"priority\": \"do_today\"}]}}, {\"module\": \"task\", \"title\": \"Errands\", \"data\": {\"action\": \"create\", \"tasks\": [{\"description\": \"buy milk\", \"group\": \"errands\"}, {\"description\": \"post letter\", \"group\": \"Errands\", \"priority\": \"urgent\"}]}}]}"
RawComplete ==
    "{\"intents\": [{\"module\": \"task\", \"data\": {\"action\": \"complete\", \"completed\": [\"buy milk\"]}}]}"
RawBrokenJournal ==
    "[{\"module\": \"task\", \"data\": {\"action\": \"create\", \"tasks\": [{\"description\": \"post letter\", \"group\": \"Errands\", \"priority\": \"urgent\"}, 7]}}, {\"module\": \"journal\", \"data\": {\"activities\": [{\"content\": \"walked the dog\", \"topic\": \"dogs\"}, {\"content\": \"took the dog to the vet\", \"topic\": \"Dogs\"}]}}]"
RawRememberMood ==
    "{\"intents\": [{\"module\": \"remember\", \"spoken_response\": \"Noted.\", \"data\": {\"items\": [{\"content\": \"wifi is blue42\", \"category\": \"passwords\"}, {\"content\": \"safe code 1234\", \"category\": \"Passwords\"}]}}, {\"module\": \"mood\", \"spoken_response\": \"Logged your mood.\", \"data\": {\"rating\": 7}}]}"
RawNullDataMemo ==
    "{\"intents\": [{\"module\": \"memo\", \"data\": null}, {\"module\": \"memo\", \"data\": {\"content\": \"call mum\"}}]}"
RawCompleteSpoken ==
    "{\"intents\": [{\"module\": \"task\", \"spoken_response\": \"Marked buy milk as done.\", \"data\": {\"action\": \"complete\", \"completed\": [\"buy milk\"]}}]}"
RawUnknownTags ==
    "{\"intents\": [{\"module\": \"shopping\", \"data\": {\"content\": \"bread and eggs\"}}, {\"title\": \"Note\", \"data\": {\"content\": \"call mum\"}}]}"
RawListTag ==
    "{\"intents\": [{\"module\": [\"task\", \"memo\"], \"data\": {\"content\": \"call mum\"}}]}"
RawNoneJournal ==
    "{\"intents\": [{\"module\": \"task\", \"data\": {\"action\": \"create\", \"tasks\": []}}, {\"module\": \"journal\", \"data\": {\"activities\": [{\"content\": \"walked the dog\", \"topic\": \"dogs\"}, {\"content\": \"took the dog to the vet\", \"topic\": \"Dogs\"}]}}]}"
RawCompleteJournal ==
    "{\"intents\": [{\"module\": \"task\", \"data\": {\"action\": \"complete\", \"completed\": [\"buy milk\"]}}, {\"module\": \"journal\", \"data\": {\"activities\": [{\"content\": \"walked the dog\", \"topic\": \"dogs\"}, {\"content\": \"took the dog to the vet\", \"topic\": \"Dogs\"}]}}]}"
RawDogJournal ==
    "{\"intents\": [{\"module\": \"task\", \"data\": {\"action\": \"create\", \"tasks\": [{\"description\": \"walk the dog\", \"group\": \"ERRANDS\", \"priority\": \"do_today\"}]}}, {\"module\": \"journal\", \"data\": {\"activities\": [{\"content\": \"walked the dog\", \"topic\": \"dogs\"}, {\"content\": \"took the dog to the vet\", \"topic\": \"Dogs\"}]}}]}"

MatchNotJson == "I could not find any matching task."
MatchList ==
    "[1]"
MatchNone ==
    "{\"matched_ids\": [], \"explanation\": \"nothing matches\"}"
Match1 ==
    "{\"matched_ids\": [1], \"explanation\": \"same thing\"}"
Match3 ==
    "{\"matched_ids\": [3]}"
Match12 ==
    "{\"matched_ids\": [1, 2], \"explanation\": \"both\"}"
Match2And99 ==
    "{\"matched_ids\": [2, 99], \"explanation\": \"both\"}"
MatchBare ==
    "{\"matched_ids\": 1}"

json_loads(text) ==
    CASE text = RawNotJson -> DecodeError
      [] text = RawNumber -> JNum(42)
      [] text = RawIntentsNull -> JObj([intents |-> JNull])
      [] text = RawIntentsEmpty -> JObj([intents |-> EmptyList])
      [] text = RawBareEmpty -> EmptyList
      [] text = RawLegacy -> IntentLegacy
      [] text = RawCreateTwo -> JObj([intents |-> JList(<<IntentCreateTwo>>)])
      [] text = RawCreateCreate ->
            JObj([intents |-> JList(<<IntentCreateDog, IntentCreateTwo>>)])
      [] text = RawComplete -> JObj([intents |-> JList(<<IntentComplete>>)])
      [] text = RawBrokenJournal -> JList(<<IntentCreateBroken, IntentJournal>>)
      [] text = RawRememberMood ->
            JObj([intents |-> JList(<<IntentRemember, IntentMood>>)])
      [] text = RawNullDataMemo ->
            JObj([intents |-> JList(<<IntentMemoNullData, IntentLegacy>>)])
      [] text = RawCompleteSpoken ->
            JObj([intents |-> JList(<<IntentCompleteSpoken>>)])
      [] text = RawUnknownTags ->
            JObj([intents |-> JList(<<IntentShopping, IntentUntagged>>)])
      [] text = RawListTag ->
            JObj([intents |-> JList(<<IntentListTag>>)])
      [] text = RawNoneJournal ->
            JObj([intents |-> JList(<<IntentCreateNone, IntentJournal>>)])
      [] text = RawCompleteJournal ->
            JObj([intents |-> JList(<<IntentComplete, IntentJournal>>)])
      [] text = RawDogJournal ->
            JObj([intents |-> JList(<<IntentCreateDog, IntentJournal>>)])
      [] text = MatchNotJson -> DecodeError
      [] text = MatchList -> JList(<<JNum(1)>>)
      [] text = MatchNone ->
            JObj([matched_ids |-> JList(<<>>), explanation |-> JStr("nothing matches")])
      [] text = Match1 ->
            JObj([matched_ids |-> JList(<<JNum(1)>>), explanation |-> JStr("same thing")])
      [] text = Match3 ->
            JObj([matched_ids |-> JList(<<JNum(3)>>)])
      [] text = Match12 ->
            JObj([matched_ids |-> JList(<<JNum(1), JNum(2)>>), explanation |-> JStr("both")])
      [] text = Match2And99 ->
            JObj([matched_ids |-> JList(<<JNum(2), JNum(99)>>), explanation |-> JStr("both")])
      [] text = MatchBare -> JObj([matched_ids |-> JNum(1)])

ClassifierTexts ==
    {RawNotJson, RawNumber, RawIntentsNull, RawIntentsEmpty, RawBareEmpty, RawLegacy,
     RawCreateTwo, RawCreateCreate, RawComplete, RawBrokenJournal, RawRememberMood,
     RawNullDataMemo, RawCompleteSpoken, RawUnknownTags, RawListTag}
\* Classifier outputs with several intents that depend on one another, used by
\* the specification of batches.
BatchTexts ==
    {RawCreateTwo, RawCreateCreate, RawNoneJournal, RawCompleteJournal, RawDogJournal}
MatcherTexts ==
    {MatchNotJson, MatchList, MatchNone, Match1, Match12, Match3, Match2And99, MatchBare}

\* ------------------------------------------------ _match_tasks_with_llm
\* task.id in matched_ids: needs a container.  A list is searched for the id,
\* a dict for a key equal to it (its keys are strings: never); on None, a
\* number or a string the membership test raises TypeError.
Container(v) == v.t \in {"list", "dict"}
Contains(v, id) == IsList(v) /\ \E i \in 1..Len(v.items) : v.items[i] = JNum(id)

\* llm: what the call of client.messages.create did.  The result is either
\* raised (the call failed, or result.get on a value that is no dict) or the
\* value of matched_ids; a text that is not JSON gives [].
_match_tasks_with_llm(raw_input, open_tasks, llm) ==
    IF llm.failed THEN [raised |-> TRUE, reason |-> "APIError", matched_ids |-> JNull]
    ELSE LET result == json_loads(llm.text) IN
         IF result = DecodeError
         THEN [raised |-> FALSE, reason |-> "", matched_ids |-> EmptyList]
         ELSE IF ~IsDict(result)
         THEN [raised |-> TRUE, reason |-> "AttributeError", matched_ids |-> JNull]
         ELSE [raised |-> FALSE, reason |-> "",
               matched_ids |-> Get(result, "matched_ids", EmptyList)]

\* A candidate query without the status filter: every task of the user.
open_tasks_of_AnyStatus(db, user) ==
    {i \in 1..Len(db.tasks) : OwnedBy(db, db.tasks[i], user)}

\* An open-task query without the owner filter.
open_tasks_of_AllUsers(db, user) ==
    {i \in 1..Len(db.tasks) : db.tasks[i].status = "open"}

\* db.query(Task).join(Entry).filter(Entry.user_id == user.id,
\* Task.status == "open").all(): the positions of the user's open tasks.
open_tasks_of(db, user) ==
    {i \in 1..Len(db.tasks) : OwnedBy(db, db.tasks[i], user) /\ db.tasks[i].status = "open"}

\* A completion loop over the whole table: whatever id the matcher names is
\* closed, open or not, the owner's or not.
mark_done_AnyId(tasks, open_tasks, matched_ids, now) ==
    [i \in 1..Len(tasks) |->
        IF Contains(matched_ids, tasks[i].id)
        THEN [tasks[i] EXCEPT !.status = "done", !.completed_at = now]
        ELSE tasks[i]]

\* A completion loop that closes every open task it was given.
mark_done_All(tasks, open_tasks, matched_ids, now) ==
    [i \in 1..Len(tasks) |->
        IF i \in open_tasks
        THEN [tasks[i] EXCEPT !.status = "done", !.completed_at = now]
        ELSE tasks[i]]

\* A completion loop that flips the status the row holds when it is written:
\* a row that another session has closed in the meantime is opened again.
mark_done_Toggle(tasks, open_tasks, matched_ids, now) ==
    [i \in 1..Len(tasks) |->
        IF i \in open_tasks /\ Contains(matched_ids, tasks[i].id)
        THEN IF tasks[i].status = "open"
             THEN [tasks[i] EXCEPT !.status = "done", !.completed_at = now]
             ELSE [tasks[i] EXCEPT !.status = "open", !.completed_at = 0]
        ELSE tasks[i]]

\* for task in open_tasks: if task.id in matched_ids: task.status = "done";
\* task.completed_at = now.  The tasks table after the loop and the commit.
mark_done(tasks, open_tasks, matched_ids, now) ==
    [i \in 1..Len(tasks) |->
        IF i \in open_tasks /\ Contains(matched_ids, tasks[i].id)
        THEN [tasks[i] EXCEPT !.status = "done", !.completed_at = now]
        ELSE tasks[i]]

\* The ids of the tasks the loop appended to matched / completed.
matched_of(tasks, open_tasks, matched_ids) ==
    {tasks[i].id : i \in {j \in open_tasks : Contains(matched_ids, tasks[j].id)}}

NoMatchResponse == "I couldn't find a matching open task. Could you be more specific?"

\* ------------------------------------------------------ _complete_tasks
\* A completion that stores its Entry only when it has closed a task.
_complete_tasks_LogsOnlySuccess(user, raw_input, intent_data, db, llm, now) ==
    LET open_tasks == open_tasks_of(db, user)
        m == IF open_tasks # {}
             THEN _match_tasks_with_llm(raw_input, open_tasks, llm)
             ELSE [raised |-> FALSE, reason |-> "", matched_ids |-> EmptyList]
    IN
    IF m.raised THEN Raised(db, m.reason, <<>>)
    ELSE IF open_tasks # {} /\ ~Container(m.matched_ids) THEN Raised(db, "TypeError", <<>>)
    ELSE
    LET matched == matched_of(db.tasks, open_tasks, m.matched_ids)
        db1 == [db EXCEPT !.tasks = mark_done(@, open_tasks, m.matched_ids, now)]
        entry == NewEntry(db1, user, JStr("task"))
        db2 == [db1 EXCEPT !.entries = Append(@, entry)]
    IN  IF matched = {}
        THEN Returned(db, Get(intent_data, "spoken_response", JStr(NoMatchResponse)), 0,
                      <<>>)
        ELSE Returned(db2, Get(intent_data, "spoken_response",
                                   JStr("Done! Marked as complete.")), entry.id,
                      <<[dim |-> "complete", matched |-> matched, entry |-> entry.id,
                         processed_content |-> Cardinality(matched)]>>)

\* _complete_tasks after its open_tasks query: the matcher call, the loop over
\* the rows the query returned (open_tasks, which other sessions may have
\* changed since: the UPDATE writes status and completed_at whatever the row
\* holds now) and the Entry (its processed_content is "Completed <n> task(s)":
\* the trace step keeps n).
_complete_tasks_from(user, raw_input, intent_data, db, open_tasks, llm, now) ==
    LET m == IF open_tasks # {}
             THEN _match_tasks_with_llm(raw_input, open_tasks, llm)
             ELSE [raised |-> FALSE, reason |-> "", matched_ids |-> EmptyList]
    IN
    IF m.raised THEN Raised(db, m.reason, <<>>)
    ELSE IF open_tasks # {} /\ ~Container(m.matched_ids) THEN Raised(db, "TypeError", <<>>)
    ELSE
    LET matched == matched_of(db.tasks, open_tasks, m.matched_ids)
        db1 == [db EXCEPT !.tasks = mark_done(@, open_tasks, m.matched_ids, now)]
        entry == NewEntry(db1, user, JStr("task"))
        db2 == [db1 EXCEPT !.entries = Append(@, entry)]
        response == IF matched # {} THEN JStr("Done! Marked as complete.")
                    ELSE JStr(NoMatchResponse)
    IN  Returned(db2, Get(intent_data, "spoken_response", response), entry.id,
                 <<[dim |-> "complete", matched |-> matched, entry |-> entry.id,
                    processed_content |-> Cardinality(matched)]>>)

\* _complete_tasks: the open_tasks query, then the matcher call, the loop and
\* the Entry, on the rows that query returned.
_complete_tasks(user, raw_input, intent_data, db, llm, now) ==
    _complete_tasks_from(user, raw_input, intent_data, db, open_tasks_of(db, user),
                         llm, now)

\* ---------------------------------------------------------- handle_task
handle_task(user, raw_input, intent_data, db, order, llm, now) ==
    LET data == Get(intent_data, "data", EmptyDict) IN
    IF ~IsDict(data) THEN Raised(db, "AttributeError", <<>>)
    ELSE IF Get(data, "action", JStr("create")) = JStr("complete")
         THEN _complete_tasks(user, raw_input, intent_data, db, llm, now)
         ELSE _create_tasks(user, raw_input, intent_data, db, order)

\* ------------------------------------------------------ handle_remember
NewRememberItem(db, entry_id, category) ==
    [id |-> NextId(db.remember), entry_id |-> entry_id, category |-> category]

RECURSIVE category_loop(_, _)
category_loop(existing_cat_names, category) ==
    IF existing_cat_names = <<>> THEN [raised |-> FALSE, label |-> category]
    ELSE LET existing == Head(existing_cat_names)
         IN  IF ~IsStr(existing) \/ ~IsStr(category)
             THEN [raised |-> TRUE, label |-> category]
             ELSE IF Lower(existing.s) = Lower(category.s)
                  THEN [raised |-> FALSE, label |-> existing]
                  ELSE category_loop(Tail(existing_cat_names), category)

\* ",".join(tags) raises TypeError on a list that holds a value that is no str.
TagsJoinable(tags) ==
    IsList(tags) => \A i \in 1..Len(tags.items) : IsStr(tags.items[i])

RECURSIVE remember_loop(_, _, _)
remember_loop(user, items_data, st) ==
    IF items_data = <<>> \/ st.raised THEN st
    ELSE
    LET item == Head(items_data) IN
    IF ~IsDict(item) THEN [st EXCEPT !.raised = TRUE, !.reason = "AttributeError"]
    ELSE
    LET r == category_loop(st.names, Get(item, "category", JStr("General"))) IN
    IF r.raised THEN [st EXCEPT !.raised = TRUE, !.reason = "AttributeError"]
    ELSE IF ~TagsJoinable(Get(item, "tags", EmptyList))
              \/ ~IsStr(Get(item, "content", JStr("Remember")))
    THEN [st EXCEPT !.raised = TRUE, !.reason = "TypeError"]
    ELSE
    LET category == r.label
        entry == NewEntry(st.db, user, JStr("remember"))
        db1 == [st.db EXCEPT !.entries = Append(@, entry)]
        remember == NewRememberItem(db1, entry.id, category)
        db2 == [db1 EXCEPT !.remember = Append(@, remember)]
        names2 == AppendIfNew(st.names, category)
        step == [dim |-> "category", snapshot |-> st.names,
                 candidate |-> Get(item, "category", JStr("General")),
                 result |-> category, after |-> names2, row |-> remember.id,
                 item |-> item]
    IN  remember_loop(user, Tail(items_data),
            [st EXCEPT !.db = db2, !.names = names2,
                       !.created = Append(@, remember),
                       !.first_entry_id = IF @ = 0 THEN entry.id ELSE @,
                       !.trace = Append(@, step)])

handle_remember(user, raw_input, intent_data, db, order) ==
    LET data == Get(intent_data, "data", EmptyDict) IN
    IF ~IsDict(data) THEN Raised(db, "AttributeError", <<>>)
    ELSE
    LET items_data0 == Get(data, "items", EmptyList)
        items_data ==
            IF ~Truthy(items_data0) /\ Truthy(Get(data, "content", JNull))
            THEN JList(<<JObj([content |-> data.kv["content"],
                               category |-> Get(data, "category", JStr("General")),
                               tags |-> Get(data, "tags", EmptyList)])>>)
            ELSE items_data0
    IN
    IF ~Iterable(items_data) THEN Raised(db, "TypeError", <<>>)
    ELSE
    LET st0 == [raised |-> FALSE, reason |-> "", db |-> db, names |-> order,
                created |-> <<>>, first_entry_id |-> 0, trace |-> <<>>]
        st == remember_loop(user, ItemsOf(items_data), st0)
    IN
    IF st.raised THEN Raised(st.db, st.reason, st.trace)
    ELSE LET response ==
                 IF Len(st.created) = 1 THEN JStr("Noted.")
                 ELSE JStr("Saved " \o ToString(Len(st.created)) \o " items.")
         IN  Returned(st.db, Get(intent_data, "spoken_response", response),
                      st.first_entry_id, st.trace)

\* ------------------------------------------------------- handle_journal
NewJournalEntry(db, entry_id, topic) ==
    [id |-> NextId(db.journal), entry_id |-> entry_id, topic |-> topic]

RECURSIVE topic_loop(_, _)
topic_loop(existing_topic_names, topic) ==
    IF existing_topic_names = <<>> THEN [raised |-> FALSE, label |-> topic]
    ELSE LET existing == Head(existing_topic_names)
         IN  IF ~IsStr(existing) \/ ~IsStr(topic)
             THEN [raised |-> TRUE, label |-> topic]
             ELSE IF Lower(existing.s) = Lower(topic.s)
                  THEN [raised |-> FALSE, label |-> existing]
                  ELSE topic_loop(Tail(existing_topic_names), topic)

RECURSIVE journal_loop(_, _, _)
journal_loop(user, activities, st) ==
    IF activities = <<>> \/ st.raised THEN st
    ELSE
    LET activity == Head(activities) IN
    IF ~IsDict(activity) THEN [st EXCEPT !.raised = TRUE, !.reason = "AttributeError"]
    ELSE
    LET topic0 == Get(activity, "topic", JNull)
        r == IF Truthy(topic0) THEN topic_loop(st.names, topic0)
             ELSE [raised |-> FALSE, label |-> topic0]
    IN
    IF r.raised THEN [st EXCEPT !.raised = TRUE, !.reason = "AttributeError"]
    ELSE IF ~IsStr(Get(activity, "content", JStr("Journal")))
    THEN [st EXCEPT !.raised = TRUE, !.reason = "TypeError"]
    ELSE
    LET topic == r.label
        entry == NewEntry(st.db, user, JStr("journal"))
        db1 == [st.db EXCEPT !.entries = Append(@, entry)]
        journal == NewJournalEntry(db1, entry.id, topic)
        db2 == [db1 EXCEPT !.journal = Append(@, journal)]
        names2 == IF Truthy(topic) THEN AppendIfNew(st.names, topic) ELSE st.names
        step == [dim |-> "topic", snapshot |-> st.names, candidate |-> topic0,
                 result |-> topic, after |-> names2, row |-> journal.id,
                 item |-> activity]
    IN  journal_loop(user, Tail(activities),
            [st EXCEPT !.db = db2, !.names = names2,
                       !.created = Append(@, journal),
                       !.first_entry_id = IF @ = 0 THEN entry.id ELSE @,
                       !.trace = IF Truthy(topic0) THEN Append(@, step) ELSE @])

handle_journal(user, raw_input, intent_data, db, order) ==
    LET data == Get(intent_data, "data", EmptyDict) IN
    IF ~IsDict(data) THEN Raised(db, "AttributeError", <<>>)
    ELSE
    LET activities0 == Get(data, "activities", EmptyList)
        activities ==
            IF ~Truthy(activities0) /\ Truthy(Get(data, "content", JNull))
            THEN JList(<<JObj([content |-> data.kv["content"],
                               activity_type |-> Get(data, "activity_type", JStr("general")),
                               topic |-> Get(data, "topic", JNull)])>>)
            ELSE activities0
    IN
    IF ~Iterable(activities) THEN Raised(db, "TypeError", <<>>)
    ELSE
    LET st0 == [raised |-> FALSE, reason |-> "", db |-> db, names |-> order,
                created |-> <<>>, first_entry_id |-> 0, trace |-> <<>>]
        st == journal_loop(user, ItemsOf(activities), st0)
    IN
    IF st.raised THEN Raised(st.db, st.reason, st.trace)
    ELSE LET response ==
                 IF Len(st.created) = 1 THEN JStr("Logged.")
                 ELSE JStr("Logged " \o ToString(Len(st.created)) \o " activities for today.")
         IN  Returned(st.db, Get(intent_data, "spoken_response", response),
                      st.first_entry_id, st.trace)

\* ------------------------------------------------------ handle_calendar
NewCalendarEvent(db, entry_id, google_event_id) ==
    [id |-> NextId(db.calendar), entry_id |-> entry_id,
     google_event_id |-> google_event_id, sms_sent |-> FALSE]

\* google: what create_calendar_event did: "event" when it returned the event
\* Google created, "none" when it returned None (Google Calendar is not
\* connected, or the insertion failed inside its try), "raises" when
\* get_calendar_service raised before that try (get_google_credentials
\* refreshes an expired token with creds.refresh(Request()), which raises when
\* Google cannot be reached or refuses).
\* sms: whether notify_johnny reported the SMS as sent.
\* The trace step tells which sentences the confirmation got: added for
\* "Added to your calendar.", texted for "Texted Johnny.".
GoogleOutcomes == {"event", "none", "raises"}
handle_calendar(user, raw_input, intent_data, db, google, sms) ==
    LET data == Get(intent_data, "data", EmptyDict) IN
    IF ~IsDict(data) THEN Raised(db, "AttributeError", <<>>)
    ELSE
    LET start_time == Get(data, "start", JNull)
        end_time == Get(data, "end", JNull)
        should_notify_partner == Get(data, "notify_partner", JNum(0))
        entry == NewEntry(db, user, JStr("calendar"))
        db1 == [db EXCEPT !.entries = Append(@, entry)]
    IN
    IF google = "raises" THEN Raised(db1, "RefreshError", <<>>)
    ELSE IF (Truthy(start_time) /\ ~IsoValid(start_time))
         \/ (Truthy(end_time) /\ ~IsoValid(end_time))
    THEN Raised(db1, "ValueError", <<>>)
    ELSE
    LET sms_sent == Truthy(should_notify_partner) /\ sms
        cal_event == [NewCalendarEvent(db1, entry.id, IF google = "event" THEN 1 ELSE 0)
                        EXCEPT !.sms_sent = sms_sent]
        db2 == [db1 EXCEPT !.calendar = Append(@, cal_event)]
    IN  Returned(db2, Get(intent_data, "spoken_response", JStr("Created.")),
                 entry.id,
                 <<[dim |-> "calendar", added |-> google = "event",
                    texted |-> sms_sent]>>)

\* ------------------------------------------------------ MODULE_HANDLERS
MODULE_HANDLERS ==
    [memo |-> "handle_memo", diary |-> "handle_memo", screenshot_note |-> "handle_memo",
     expense |-> "handle_memo", food |-> "handle_memo", mood |-> "handle_memo",
     idea |-> "handle_memo", gym |-> "handle_memo", work |-> "handle_memo",
     calendar |-> "handle_calendar", task |-> "handle_task",
     remember |-> "handle_remember", journal |-> "handle_journal"]

\* A dict key must be hashable: MODULE_HANDLERS.get raises TypeError on a
\* module that is a list or a dict.
Hashable(v) == v.t \notin {"list", "dict"}

\* A lookup whose default is the task handler.
handler_of_DefaultsToTask(intent_data) ==
    LET module_name == Get(intent_data, "module", JStr("memo")) IN
    IF IsStr(module_name) /\ module_name.s \in DOMAIN MODULE_HANDLERS
    THEN MODULE_HANDLERS[module_name.s]
    ELSE "handle_task"

\* module_name = intent_data.get("module", "memo");
\* handler = MODULE_HANDLERS.get(module_name, handle_memo)
handler_of(intent_data) ==
    LET module_name == Get(intent_data, "module", JStr("memo")) IN
    IF IsStr(module_name) /\ module_name.s \in DOMAIN MODULE_HANDLERS
    THEN MODULE_HANDLERS[module_name.s]
    ELSE "handle_memo"

\* -------------------------------------------------- auto_complete_tasks
\* A derivation that skips no module: every intent is an activity.
intent_actions_EveryIntentActs(intent) ==
    [raised |-> FALSE, actions |-> <<Get(intent, "module", JStr(""))>>]

\* What one intent adds to actions_done: [raised, actions].  data.get raises
\* on a data that is no dict, in the branches that read it.
intent_actions(intent) ==
    LET module == Get(intent, "module", JStr(""))
        data == Get(intent, "data", EmptyDict)
        none == [raised |-> FALSE, actions |-> <<>>]
        raise == [raised |-> TRUE, actions |-> <<>>]
        one(a) == [raised |-> FALSE, actions |-> <<a>>]
    IN
    IF module = JStr("task") THEN none
    ELSE IF module = JStr("journal") THEN
        IF ~IsDict(data) THEN raise
        ELSE LET acts == Get(data, "activities", EmptyList) IN
             IF ~Iterable(acts) \/ \E i \in 1..Len(ItemsOf(acts)) : ~IsDict(acts.items[i])
             THEN raise
             ELSE [raised |-> FALSE,
                   actions |-> [i \in 1..Len(ItemsOf(acts)) |->
                                   Get(acts.items[i], "content", JStr(""))]]
    ELSE IF module = JStr("food") THEN
        IF ~IsDict(data) THEN raise
        ELSE LET items == Get(data, "items", EmptyList) IN
             IF ~Truthy(items) THEN none
             ELSE IF ~TagsJoinable(items) THEN raise
             ELSE one(JStr("Ate ..."))
    ELSE IF module = JStr("calendar") THEN
        IF ~IsDict(data) THEN raise ELSE one(JStr("Scheduled ..."))
    ELSE IF module = JStr("gym") THEN
        IF ~IsDict(data) THEN raise
        ELSE LET exercises == Get(data, "exercises", EmptyList) IN
             IF ~Truthy(exercises) THEN one(JStr("Went to the gym"))
             ELSE IF ~IsList(exercises)
                      \/ \E i \in 1..Len(ItemsOf(exercises)) :
                            ~IsDict(exercises.items[i])
                            \/ ~IsStr(Get(exercises.items[i], "name", JStr("")))
             THEN raise
             ELSE one(JStr("Did gym: ..."))
    ELSE IF module = JStr("expense") THEN
        IF ~IsDict(data) THEN raise ELSE one(JStr("Spent money at ..."))
    ELSE IF module \in {JStr("mood"), JStr("remember"), JStr("diary")} THEN none
    ELSE IF ~IsDict(data) THEN raise
    ELSE LET content == Get(data, "content", JStr("")) IN
         IF Truthy(content) THEN one(content) ELSE none

RECURSIVE actions_done_of(_)
actions_done_of(intents) ==
    IF intents = <<>> THEN [raised |-> FALSE, actions |-> <<>>]
    ELSE LET a == intent_actions(Head(intents)) IN
         IF a.raised THEN a
         ELSE LET rest == actions_done_of(Tail(intents)) IN
              IF rest.raised THEN rest
              ELSE [raised |-> FALSE, actions |-> a.actions \o rest.actions]

\* The try block around the matcher call: any failure of the call, of
\* json.loads or of result.get gives no match.
auto_match(llm) ==
    IF llm.failed THEN EmptyList
    ELSE LET result == json_loads(llm.text) IN
         IF result = DecodeError \/ ~IsDict(result) THEN EmptyList
         ELSE Get(result, "matched_ids", EmptyList)

\* auto_complete_tasks after its open_tasks query.  The result: [raised, db,
\* completed, called]; completed is the set of ids of the tasks marked done,
\* called tells whether the matcher was called.
auto_complete_tasks_from(user, intents, db, open_tasks, llm, now) ==
    LET nothing == [raised |-> FALSE, db |-> db, completed |-> {}, called |-> FALSE]
    IN
    IF open_tasks = {} THEN nothing
    ELSE
    LET a == actions_done_of(intents) IN
    IF a.raised THEN [nothing EXCEPT !.raised = TRUE]
    ELSE IF a.actions = <<>> THEN nothing
    ELSE
    LET matched_ids == auto_match(llm) IN
    IF ~Container(matched_ids) THEN [nothing EXCEPT !.raised = TRUE, !.called = TRUE]
    ELSE [raised |-> FALSE,
          db |-> [db EXCEPT !.tasks = mark_done(@, open_tasks, matched_ids, now)],
          completed |-> matched_of(db.tasks, open_tasks, matched_ids),
          called |-> TRUE]

\* An auto-completion pass whose query returns the owner's tasks of any
\* status.
auto_complete_tasks_AllOwned(user, intents, db, llm, now) ==
    auto_complete_tasks_from(user, intents, db,
        {i \in 1..Len(db.tasks) : OwnedBy(db, db.tasks[i], user)}, llm, now)

\* auto_complete_tasks: the open_tasks query, then the rest on its rows.
auto_complete_tasks(user, intents, db, llm, now) ==
    auto_complete_tasks_from(user, intents, db, open_tasks_of(db, user), llm, now)

\* A post-processing block that appends its sentence whether or not a task
\* was completed.
post_processing_AlwaysSays(a, db, responses) ==
    IF a.raised
    THEN [escaped |-> FALSE, db |-> db, responses |-> responses, completed |-> {}]
    ELSE [escaped |-> FALSE, db |-> a.db,
          responses |-> Append(responses, [kind |-> "also_done", module |-> JNull,
                                           text |-> JStr("Also marked as done")]),
          completed |-> a.completed]

\* A post-processing block without its except clause.
post_processing_NoExcept(a, db, responses) ==
    [escaped |-> a.raised, db |-> db, responses |-> responses, completed |-> {}]

\* try: auto_completed = await auto_complete_tasks(user, intents, db);
\*      if auto_completed: responses.append("Also marked as done: ...")
\* except Exception: printed.  a is what auto_complete_tasks did; escaped tells
\* whether an exception leaves the block.
post_processing(a, db, responses) ==
    IF a.raised
    THEN [escaped |-> FALSE, db |-> db, responses |-> responses, completed |-> {}]
    ELSE [escaped |-> FALSE, db |-> a.db,
          responses |-> IF a.completed # {}
                        THEN Append(responses, [kind |-> "also_done", module |-> JNull,
                                                text |-> JStr("Also marked as done")])
                        ELSE responses,
          completed |-> a.completed]

\* -------------------------------------------------------- classify_intent
\* A fallback that stores the transcript as it is, with no placeholder for an
\* image that came without text.
FallbackMemo_NoPlaceholder(transcript) ==
    JObj([module |-> JStr("memo"), title |-> JStr("Voice Memo"),
          spoken_response |-> JStr("Got it - saved your memo."),
          data |-> JObj([content |-> JStr(transcript)])])

FallbackMemo(transcript) ==
    JObj([module |-> JStr("memo"), title |-> JStr("Voice Memo"),
          spoken_response |-> JStr("Got it - saved your memo."),
          data |-> JObj([content |-> IF transcript # "" THEN JStr(transcript)
                                     ELSE JStr("Image processed")])])
EmptyInputMemo ==
    JObj([module |-> JStr("memo"), title |-> JStr("Empty Input"),
          spoken_response |-> JStr("I didn't catch anything. Could you try again?"),
          data |-> JObj([content |-> JStr("")])])

\* A parser that accepts the wrapper object only: a bare array and an
\* object without the wrapper are answered with the fallback memo.
parse_intents_WrapperOnly(raw_text, transcript) ==
    LET result == json_loads(raw_text) IN
    IF result = DecodeError THEN JList(<<FallbackMemo(transcript)>>)
    ELSE IF IsDict(result) /\ "intents" \in DOMAIN result.kv THEN result.kv["intents"]
    ELSE JList(<<FallbackMemo(transcript)>>)

\* The try block of classify_intent applied to the text of the response.
parse_intents(raw_text, transcript) ==
    LET result == json_loads(raw_text) IN
    IF result = DecodeError THEN JList(<<FallbackMemo(transcript)>>)
    ELSE IF IsDict(result) /\ "intents" \in DOMAIN result.kv THEN result.kv["intents"]
    ELSE IF IsList(result) THEN result
    ELSE JList(<<result>>)

\* A classification that answers a failed call with the fallback memo.
classify_intent_FallbackOnFailure(transcript, image, llm) ==
    IF transcript = "" /\ ~image
    THEN [raised |-> FALSE, intents |-> JList(<<EmptyInputMemo>>)]
    ELSE IF llm.failed
    THEN [raised |-> FALSE, intents |-> JList(<<FallbackMemo(transcript)>>)]
    ELSE [raised |-> FALSE, intents |-> parse_intents(llm.text, transcript)]

\* transcript "" stands for None; image tells whether image_bytes is given.
\* The result is [raised, intents]: raised when the classification call fails.
classify_intent(transcript, image, llm) ==
    IF transcript = "" /\ ~image
    THEN [raised |-> FALSE, intents |-> JList(<<EmptyInputMemo>>)]
    ELSE IF llm.failed THEN [raised |-> TRUE, intents |-> JNull]
    ELSE [raised |-> FALSE, intents |-> parse_intents(llm.text, transcript)]

\* ------------------------------------------------------- dashboard tasks
\* add_task: the group and the priority of the body are stored as given.
add_task(db, user, group, priority) ==
    LET entry == NewEntry(db, user, JStr("task"))
        db1 == [db EXCEPT !.entries = Append(@, entry)]
    IN  [db1 EXCEPT !.tasks = Append(@, NewTask(db1, entry.id, group, priority, ""))]

\* A task lookup by id alone.
task_of_user_AnyOwner(db, user, task_id) ==
    {i \in 1..Len(db.tasks) : db.tasks[i].id = task_id}

\* db.query(Task).join(Entry).filter(Task.id == task_id, Entry.user_id == user.id)
task_of_user(db, user, task_id) ==
    {i \in 1..Len(db.tasks) : db.tasks[i].id = task_id /\ OwnedBy(db, db.tasks[i], user)}

\* trash_item: entry = db.query(Entry).filter(Entry.id == entry_id,
\* Entry.user_id == user.id).first(); entry.deleted_at = datetime.now(); a
\* Record of another user, or none, is "Not found" and nothing changes.
trash_item(db, user, entry_id, now) ==
    [db EXCEPT !.entries =
        [i \in 1..Len(@) |->
            IF @[i].id = entry_id /\ @[i].user_id = user
            THEN [@[i] EXCEPT !.deleted_at = now] ELSE @[i]]]

complete_task(db, i, now) ==
    [db EXCEPT !.tasks[i] = [@ EXCEPT !.status = "done", !.completed_at = now]]

\* A reopen that flips the status and forgets the timestamp.
reopen_task_KeepsTimestamp(db, i) ==
    [db EXCEPT !.tasks[i] = [@ EXCEPT !.status = "open"]]

reopen_task(db, i) ==
    [db EXCEPT !.tasks[i] = [@ EXCEPT !.status = "open", !.completed_at = 0]]

\* ------------------------------------------------------------------ state
VARIABLES
    db,        \* the database
    clock,     \* datetime.now(): advances with every request and dashboard call
    nops,      \* requests and dashboard calls started so far
    pc,        \* "idle", or where process_input is: "dispatch", "post", "done"
    req,       \* the local variables of the process_input call in progress
    trace,     \* the label resolutions and completions made by its handlers
    llm,       \* what the last matcher call of the request did
    outcome    \* how process_input ended: returned a response, or raised

vars == <<db, clock, nops, pc, req, trace, llm, outcome>>

NoCall == [failed |-> FALSE, text |-> "(no call)"]
NoReq == [user |-> 0, transcript |-> "", image |-> FALSE, raw |-> NoCall,
          intents |-> JNull, k |-> 0, responses |-> <<>>, log |-> <<>>,
          first_entry_id |-> -1, tasks0 |-> 0, groups0 |-> {}]
NoOutcome == [status |-> "none", detail |-> "", spoken_response |-> <<>>,
              entry_id |-> 0, module |-> JNull]

\* What reaches process_input: typed text, an image without text, or a
\* recording whose transcription came back empty.
Inputs ==
    {[transcript |-> "walked the dog and bought milk", image |-> FALSE],
     [transcript |-> "", image |-> TRUE],
     [transcript |-> "", image |-> FALSE]}

ClassifierCalls == {CallFailed} \cup {CallReturned(t) : t \in ClassifierTexts}
MatcherCalls == {CallFailed} \cup {CallReturned(t) : t \in MatcherTexts}

\* The databases a behaviour starts from: the empty one of a fresh install,
\* and one that earlier dashboard calls have filled: user 1 has added two
\* tasks whose groups differ only in case, completed the second and moved the
\* first to the trash, user 2 has added one task.  now is the time of the last
\* of these calls.
FilledDb ==
    trash_item(
        complete_task(
            add_task(add_task(add_task(EmptyDb, 1, JStr("Errands"), JStr("this_week")),
                              1, JStr("errands"), JStr("urgent")),
                     2, JStr("ERRANDS"), JStr("this_week")),
            2, 4),
        1, 1, 5)
InitialDbs == {[db |-> EmptyDb, now |-> 0], [db |-> FilledDb, now |-> 5]}

Init ==
    /\ \E d \in InitialDbs : db = d.db /\ clock = d.now
    /\ nops = 0
    /\ pc = "idle"
    /\ req = NoReq
    /\ trace = <<>>
    /\ llm = NoCall
    /\ outcome = NoOutcome

\* len(intents) and the loop that prints intent.get('module') for each intent
\* (process_input, before the dispatch loop and outside any try), then
\* intents[0].get("data", {}).get("content", ...) for an image without text.
pre_dispatch_raises(intents, transcript, image) ==
    \/ intents.t \in {"null", "num"}
    \/ (~IsList(intents) /\ Truthy(intents))
    \/ (IsList(intents) /\ \E i \in 1..Len(intents.items) : ~IsDict(intents.items[i]))
    \/ (image /\ transcript = "" /\ IsList(intents) /\ intents.items # <<>>
          /\ IsDict(intents.items[1])
          /\ ~IsDict(Get(intents.items[1], "data", EmptyDict)))

Raise(status, detail) ==
    [NoOutcome EXCEPT !.status = status, !.detail = detail]

\* process_input up to the dispatch loop: input checks, classify_intent, the
\* printing of the intents.  calls is what the classification call can do.
classify_step(calls) ==
    /\ pc = "idle"
    /\ nops < MaxOps
    /\ \E user \in PipelineUsers, input \in Inputs, call \in calls :
        LET c == classify_intent(input.transcript, input.image, call) IN
        /\ nops' = nops + 1
        /\ clock' = clock + 1
        /\ UNCHANGED <<db, trace, llm>>
        /\ IF input.transcript = "" /\ ~input.image
           THEN /\ pc' = "done"
                /\ req' = [NoReq EXCEPT !.user = user]
                /\ outcome' = Raise("http_400", "Could not process the input.")
           ELSE IF c.raised
           THEN /\ pc' = "done"
                /\ req' = [NoReq EXCEPT !.user = user, !.transcript = input.transcript,
                                        !.image = input.image, !.raw = call]
                /\ outcome' = Raise("http_500", "Intent classification failed")
           ELSE /\ req' = [NoReq EXCEPT !.user = user, !.transcript = input.transcript,
                               !.image = input.image, !.raw = call,
                               !.intents = c.intents, !.k = 1,
                               !.tasks0 = Len(db.tasks),
                               !.groups0 = DistinctLabels(db, db.tasks, "group", user)]
                /\ IF pre_dispatch_raises(c.intents, input.transcript, input.image)
                   THEN /\ pc' = "done"
                        /\ outcome' = Raise("unhandled_exception", "before dispatch")
                   ELSE /\ pc' = IF ItemsOf(c.intents) = <<>> THEN "post" ELSE "dispatch"
                        /\ outcome' = NoOutcome

ProcessInput_Classify == classify_step(ClassifierCalls)

\* Handlers that start from an empty snapshot, whatever the storage holds.
snapshot_orders_Empty(h, intent_data, d, user) == {<<>>}

\* The nondeterministic inputs of one handler call: the order of the taxonomy
\* snapshot it loads, and what its matcher call does.
snapshot_orders(h, intent_data, d, user) ==
    LET data == Get(intent_data, "data", EmptyDict)
        completes == IsDict(data) /\ Get(data, "action", JStr("create")) = JStr("complete")
    IN  CASE h = "handle_task" /\ ~completes -> Orders(DistinctLabels(d, d.tasks, "group", user))
          [] h = "handle_remember" ->
                Orders(DistinctLabels(d, d.remember, "category", user))
          [] h = "handle_journal" -> Orders(DistinctLabels(d, d.journal, "topic", user))
          [] OTHER -> {<<>>}

matcher_calls(h, intent_data, d, user) ==
    LET data == Get(intent_data, "data", EmptyDict) IN
    IF h = "handle_task" /\ IsDict(data)
         /\ Get(data, "action", JStr("create")) = JStr("complete")
         /\ open_tasks_of(d, user) # {}
    THEN MatcherCalls ELSE {NoCall}

\* await handler(user=user, raw_input=..., intent_data=intent_data, db=db, ...)
call_handler(h, user, raw_input, intent_data, d, order, call, now, google, sms) ==
    CASE h = "handle_task" -> handle_task(user, raw_input, intent_data, d, order, call, now)
      [] h = "handle_remember" -> handle_remember(user, raw_input, intent_data, d, order)
      [] h = "handle_journal" -> handle_journal(user, raw_input, intent_data, d, order)
      [] h = "handle_calendar" -> handle_calendar(user, raw_input, intent_data, d, google, sms)
      [] OTHER -> handle_memo(user, raw_input, intent_data, d)

\* The try/except around the handler call: what is appended to responses.
dispatch_response(module_name, r) ==
    IF r.raised THEN [kind |-> "error", module |-> module_name, text |-> JStr(r.reason)]
    ELSE [kind |-> "ok", module |-> module_name, text |-> r.spoken_response]

\* if first_entry_id is None: first_entry_id = response.entry_id  (None is -1)
dispatch_first_entry_id(first_entry_id, r) ==
    IF ~r.raised /\ first_entry_id = -1 THEN r.entry_id ELSE first_entry_id

\* A loop whose body ends with the post-processing: it runs after the first
\* intent already.
after_dispatch_PostAfterFirst(k, n, r) == "post"

\* A dispatch loop that gives up on the batch when a handler raises.
after_dispatch_StopOnError(k, n, r) == IF k = n \/ r.raised THEN "post" ELSE "dispatch"

\* for i, intent_data in enumerate(intents): after the iteration for intent k
\* of n (whether its handler returned or raised) the loop goes on to the next
\* intent, and to the post-processing after the last one.
after_dispatch(k, n, r) == IF k = n THEN "post" ELSE "dispatch"

\* One iteration of "for i, intent_data in enumerate(intents)".
ProcessInput_Dispatch ==
    /\ pc = "dispatch"
    /\ LET intents == ItemsOf(req.intents)
           intent_data == intents[req.k]
           module_name == Get(intent_data, "module", JStr("memo"))
           h == handler_of(intent_data)
           cal == h = "handle_calendar"
       IN  IF ~Hashable(module_name)
           THEN /\ pc' = "done"
                /\ outcome' = Raise("unhandled_exception", "TypeError")
                /\ UNCHANGED <<db, req, trace, llm>>
           ELSE
           \E order \in snapshot_orders(h, intent_data, db, req.user),
              call \in matcher_calls(h, intent_data, db, req.user),
              google \in IF cal THEN GoogleOutcomes ELSE {"none"},
              sms \in IF cal THEN BOOLEAN ELSE {FALSE} :
            LET r == call_handler(h, req.user, req.transcript, intent_data, db,
                                  order, call, clock, google, sms)
            IN  /\ db' = r.db
                /\ req' = [req EXCEPT
                            !.k = @ + 1,
                            !.responses = Append(@, dispatch_response(module_name, r)),
                            !.log = Append(@, [handler |-> h, raised |-> r.raised]),
                            !.first_entry_id = dispatch_first_entry_id(@, r)]
                /\ trace' = trace \o [i \in 1..Len(r.trace) |->
                                         [k |-> req.k, step |-> r.trace[i]]]
                /\ llm' = call
                /\ pc' = after_dispatch(req.k, Len(intents), r)
                /\ UNCHANGED outcome
    /\ UNCHANGED <<clock, nops>>

\* A response that names the module of the last intent of the batch.
primary_module_of_Last(intents) ==
    IF intents # <<>> THEN Get(intents[Len(intents)], "module", JStr("memo"))
    ELSE JStr("memo")

\* primary_module = intents[0].get("module", "memo") if intents else "memo"
primary_module_of(intents) ==
    IF intents # <<>> THEN Get(intents[1], "module", JStr("memo")) ELSE JStr("memo")

\* The post-processing try block and the building of the InputResponse.
ProcessInput_PostProcess ==
    /\ pc = "post"
    /\ LET intents == ItemsOf(req.intents)
           would_call == open_tasks_of(db, req.user) # {}
                            /\ ~actions_done_of(intents).raised
                            /\ actions_done_of(intents).actions # <<>>
           primary_module == primary_module_of(intents)
       IN  \E call \in IF would_call THEN MatcherCalls ELSE {NoCall} :
            LET a == auto_complete_tasks(req.user, intents, db, call, clock)
                p == post_processing(a, db, req.responses)
                responses == p.responses
            IN  /\ db' = p.db
                /\ llm' = call
                /\ trace' = IF p.completed # {}
                            THEN Append(trace, [k |-> 0, step |->
                                    [dim |-> "auto", matched |-> p.completed]])
                            ELSE trace
                /\ req' = [req EXCEPT !.responses = responses]
                /\ outcome' =
                     IF p.escaped THEN Raise("unhandled_exception", "auto-complete")
                     ELSE IF ~IsStr(primary_module)
                     THEN Raise("unhandled_exception", "ValidationError")
                     ELSE [status |-> "returned", detail |-> "",
                           spoken_response |-> responses,
                           entry_id |-> IF req.first_entry_id \in {-1, 0} THEN 0
                                        ELSE req.first_entry_id,
                           module |-> primary_module]
    /\ pc' = "done"
    /\ UNCHANGED <<clock, nops>>

\* The response (or the error) goes back to the caller; the request is over.
ProcessInput_Return ==
    /\ pc = "done"
    /\ pc' = "idle"
    /\ req' = NoReq
    /\ trace' = <<>>
    /\ llm' = NoCall
    /\ outcome' = NoOutcome
    /\ UNCHANGED <<db, clock, nops>>

\* ----------------------------------------------------- dashboard actions
DashGroups == {JStr("Errands"), JStr("errands")}

Dashboard_add_task ==
    /\ pc = "idle" /\ nops < MaxOps
    /\ \E user \in Users, group \in DashGroups :
         db' = add_task(db, user, group, JStr("this_week"))
    /\ nops' = nops + 1 /\ clock' = clock + 1
    /\ UNCHANGED <<pc, req, trace, llm, outcome>>

Dashboard_complete_task ==
    /\ pc = "idle" /\ nops < MaxOps
    /\ \E user \in Users, task_id \in Ids(db.tasks) :
        \E i \in task_of_user(db, user, task_id) :
            db' = complete_task(db, i, clock + 1)
    /\ nops' = nops + 1 /\ clock' = clock + 1
    /\ UNCHANGED <<pc, req, trace, llm, outcome>>

Dashboard_reopen_task ==
    /\ pc = "idle" /\ nops < MaxOps
    /\ \E user \in Users, task_id \in Ids(db.tasks) :
        \E i \in task_of_user(db, user, task_id) :
            db' = reopen_task(db, i)
    /\ nops' = nops + 1 /\ clock' = clock + 1
    /\ UNCHANGED <<pc, req, trace, llm, outcome>>

Next ==
    \/ ProcessInput_Classify
    \/ ProcessInput_Dispatch
    \/ ProcessInput_PostProcess
    \/ ProcessInput_Return
    \/ Dashboard_add_task
    \/ Dashboard_complete_task
    \/ Dashboard_reopen_task

Spec == Init /\ [][Next]_vars

\* ========================================================= SpecHandlers
\* The handlers on their own: each behaviour invokes, one after the other, up
\* to MaxCalls handlers, the way the dispatch loop does, each on an intent
\* drawn from HandlerIntents.  req is [user, intent], pc is "ready" before the
\* invocation and "called" after it, outcome is what the handler handed back,
\* trace the steps of the last invocation, llm its matcher call.
TaskDueBad ==
    JObj([description |-> JStr("renew passport"), group |-> JStr("errands"),
          due |-> JStr("next friday")])
TaskDueNumber ==
    JObj([description |-> JStr("pay rent"), group |-> JStr("errands"),
          due |-> JNum(20260220)])
TaskDueGood ==
    JObj([description |-> JStr("book flights"), group |-> JStr("errands"),
          due |-> JStr("2026-02-20")])
TaskOddPriority ==
    JObj([description |-> JStr("learn to juggle"), group |-> JStr("errands"),
          priority |-> JStr("someday")])
IntentCreateDue ==
    JObj([module |-> JStr("task"),
          data |-> JObj([action |-> JStr("create"),
                         tasks |-> JList(<<TaskDueBad, TaskDueGood>>)])])
IntentCreateDueNumber ==
    JObj([module |-> JStr("task"),
          data |-> JObj([action |-> JStr("create"),
                         tasks |-> JList(<<TaskDueNumber, TaskLetter>>)])])
IntentCreateOdd ==
    JObj([module |-> JStr("task"),
          data |-> JObj([action |-> JStr("create"), tasks |-> JList(<<TaskOddPriority>>)])])
\* notify_partner: 1 stands for true.
IntentCalendar ==
    JObj([module |-> JStr("calendar"),
          data |-> JObj([title |-> JStr("Dentist"), start |-> JStr("2026-02-18T14:00:00"),
                         end |-> JStr("2026-02-18T15:00:00"),
                         notify_partner |-> JNum(1)])])
IntentCalendarBadStart ==
    JObj([module |-> JStr("calendar"),
          data |-> JObj([title |-> JStr("Dentist"), start |-> JStr("tomorrow at two")])])
IntentCalendarQuiet ==
    JObj([module |-> JStr("calendar"),
          data |-> JObj([title |-> JStr("Lunch"), start |-> JStr("2026-02-18T14:00:00")])])
IntentMemoEmpty == JObj([module |-> JStr("memo"), data |-> EmptyDict])
IntentIdeaNoData == JObj([module |-> JStr("idea"), title |-> JStr("An idea")])

HandlerIntents ==
    {IntentCreateTwo, IntentCreateDue, IntentCreateDueNumber, IntentCreateOdd,
     IntentCreateBroken, IntentComplete, IntentRemember, IntentJournal,
     IntentCalendar, IntentCalendarQuiet, IntentCalendarBadStart,
     IntentLegacy, IntentMemoEmpty, IntentIdeaNoData, IntentMemoNullData, IntentShopping}

NoResult == [raised |-> FALSE, reason |-> "", spoken_response |-> JNull, entry_id |-> 0]

InitHandlers ==
    /\ \E s \in InitialDbs : db = s.db /\ clock = s.now
    /\ nops = 0
    /\ pc = "ready"
    /\ req \in {[user |-> u, intent |-> i] : u \in PipelineUsers, i \in HandlerIntents}
    /\ trace = <<>>
    /\ llm = NoCall
    /\ outcome = NoResult

\* response = await handler(user=user, raw_input=..., intent_data=intent_data,
\* db=db, ...), inside the try of the dispatch loop.
Handler_Invoke ==
    /\ pc = "ready"
    /\ nops < MaxCalls
    /\ LET h == handler_of(req.intent)
           cal == h = "handle_calendar"
       IN  \E order \in snapshot_orders(h, req.intent, db, req.user),
              call \in matcher_calls(h, req.intent, db, req.user),
              google \in IF cal THEN GoogleOutcomes ELSE {"none"},
              sms \in IF cal THEN BOOLEAN ELSE {FALSE} :
            LET r == call_handler(h, req.user, "walked the dog and bought milk",
                                  req.intent, db, order, call, clock + 1, google, sms)
            IN  /\ db' = r.db
                /\ outcome' = [raised |-> r.raised, reason |-> r.reason,
                               spoken_response |-> r.spoken_response,
                               entry_id |-> r.entry_id]
                /\ trace' = [i \in 1..Len(r.trace) |->
                                [k |-> nops + 1, step |-> r.trace[i]]]
                /\ llm' = call
    /\ pc' = "called"
    /\ nops' = nops + 1
    /\ clock' = clock + 1
    /\ UNCHANGED req

\* The loop goes on to the next intent of the batch.
Handler_NextIntent ==
    /\ pc = "called"
    /\ nops < MaxCalls
    /\ \E i \in HandlerIntents : req' = [req EXCEPT !.intent = i]
    /\ pc' = "ready"
    /\ trace' = <<>>
    /\ llm' = NoCall
    /\ outcome' = NoResult
    /\ UNCHANGED <<db, clock, nops>>

NextHandlers == Handler_Invoke \/ Handler_NextIntent

SpecHandlers == InitHandlers /\ [][NextHandlers]_vars

\* ========================================================== SpecBatches
\* Requests one after the other, without dashboard calls in between, over the
\* classifier outputs of BatchTexts.  The databases a behaviour starts from
\* hold no two groups of one owner that differ only in letter case: the empty
\* one, and one where user 1 has added two tasks to "Errands" and user 2 one
\* task to "errands".
CleanDb ==
    add_task(add_task(add_task(EmptyDb, 1, JStr("Errands"), JStr("this_week")),
                      1, JStr("Errands"), JStr("urgent")),
             2, JStr("errands"), JStr("this_week"))
CleanDbs == {[db |-> EmptyDb, now |-> 0], [db |-> CleanDb, now |-> 3]}
BatchCalls == {CallReturned(t) : t \in BatchTexts}

InitBatches ==
    /\ \E d \in CleanDbs : db = d.db /\ clock = d.now
    /\ nops = 0
    /\ pc = "idle"
    /\ req = NoReq
    /\ trace = <<>>
    /\ llm = NoCall
    /\ outcome = NoOutcome

Batch_Classify == classify_step(BatchCalls)

NextBatches ==
    \/ Batch_Classify
    \/ ProcessInput_Dispatch
    \/ ProcessInput_PostProcess
    \/ ProcessInput_Return

SpecBatches == InitBatches /\ [][NextBatches]_vars

\* ======================================================== SpecDashboard
\* The trash of the dashboard: trash_item, restore_item, permanent_delete,
\* empty_trash and the dashboard view with its automatic purge, between
\* handler calls of the pipeline that persist Records of every kind.  Here
\* the clock counts days; it advances by the Dashboard_Tick action only.

\* timedelta(days=10)
PurgeAfter == 10

\* The rows of a sub-entity table that a relationship of the Record loads
\* (entry.task, entry.remember_item, entry.journal_entry,
\* entry.calendar_event): the sub-entity whose record_id is the Record's id.
sub_entity(table, entry_id) == {i \in 1..Len(table) : table[i].entry_id = entry_id}

\* db.delete(x) for the rows at the positions gone.
Without(table, gone) == SelectSeq(table, LAMBDA r : \A i \in gone : table[i] # r)

\* A deletion that removes the Record and leaves its sub-entities.
delete_entry_RecordOnly(d, entry_id) ==
    [d EXCEPT !.entries = SelectSeq(@, LAMBDA e : e.id # entry_id)]

\* if entry.task: db.delete(entry.task) ... if entry.calendar_event:
\* db.delete(entry.calendar_event); db.delete(entry)
delete_entry(d, entry_id) ==
    [entries |-> SelectSeq(d.entries, LAMBDA e : e.id # entry_id),
     tasks |-> Without(d.tasks, sub_entity(d.tasks, entry_id)),
     remember |-> Without(d.remember, sub_entity(d.remember, entry_id)),
     journal |-> Without(d.journal, sub_entity(d.journal, entry_id)),
     calendar |-> Without(d.calendar, sub_entity(d.calendar, entry_id))]

\* for entry in old: ... / for entry in trashed: ...
RECURSIVE delete_entries(_, _)
delete_entries(d, ids) ==
    IF ids = {} THEN d
    ELSE LET id == CHOOSE x \in ids : TRUE
         IN  delete_entries(delete_entry(d, id), ids \ {id})

\* A purge query without the cutoff: every trashed Record of the user.
old_entries_NoCutoff(d, user, now) ==
    {d.entries[i].id : i \in {j \in 1..Len(d.entries) :
        d.entries[j].user_id = user /\ d.entries[j].deleted_at # 0}}

\* cutoff = now - timedelta(days=10); db.query(Entry).filter(Entry.user_id ==
\* user.id, Entry.deleted_at < cutoff): a deleted_at of NULL is never below it.
old_entries(d, user, now) ==
    {d.entries[i].id : i \in {j \in 1..Len(d.entries) :
        /\ d.entries[j].user_id = user
        /\ d.entries[j].deleted_at # 0
        /\ d.entries[j].deleted_at < now - PurgeAfter}}

_purge_old_trash(d, user, now) == delete_entries(d, old_entries(d, user, now))

\* db.query(Entry).filter(Entry.user_id == user.id, Entry.deleted_at.isnot(None))
trashed_entries(d, user) ==
    {d.entries[i].id : i \in {j \in 1..Len(d.entries) :
        d.entries[j].user_id = user /\ d.entries[j].deleted_at # 0}}

empty_trash(d, user) == delete_entries(d, trashed_entries(d, user))

\* restore_item: entry.deleted_at = None for the user's Record; "Not found"
\* otherwise.
restore_item(d, user, entry_id) ==
    [d EXCEPT !.entries =
        [i \in 1..Len(@) |->
            IF @[i].id = entry_id /\ @[i].user_id = user
            THEN [@[i] EXCEPT !.deleted_at = 0] ELSE @[i]]]

\* permanent_delete: the user's Record, trashed or not, and its sub-entity;
\* "Not found" otherwise.
permanent_delete(d, user, entry_id) ==
    IF \E i \in 1..Len(d.entries) :
          d.entries[i].id = entry_id /\ d.entries[i].user_id = user
    THEN delete_entry(d, entry_id) ELSE d

\* The intents whose handlers persist the four kinds of sub-entity.
DashboardIntents == {IntentCreateDog, IntentRemember, IntentJournal, IntentCalendarQuiet}

\* The last call and what it deleted.
NoCall3 == [op |-> "none", user |-> 0, entry_id |-> 0]
CallOf(op, user, entry_id) == [op |-> op, user |-> user, entry_id |-> entry_id]
DeletedBy(d, d2) == [deleted |-> Ids(d.entries) \ Ids(d2.entries)]

\* A database on day 16: after the calls of FilledDb user 1 has said a thing to
\* remember (Records 4 and 5), two activities (Records 6 and 7) and an event
\* (Record 8); Record 1 of user 1 and Record 3 of user 2 are in the trash since
\* day 5, Record 2 of user 1 since day 6 and Record 4 of user 1 since day 15.
TrashDb ==
    LET d1 == handle_remember(1, "remember this", IntentRemember, FilledDb, <<>>).db
        d2 == handle_journal(1, "walked the dog", IntentJournal, d1, <<>>).db
        d3 == handle_calendar(1, "lunch at two", IntentCalendarQuiet, d2, "event", FALSE).db
    IN  trash_item(trash_item(trash_item(d3, 2, 3, 5), 1, 2, 6), 1, 4, 15)
DashboardDbs == {[db |-> EmptyDb, now |-> 1], [db |-> TrashDb, now |-> 16]}

InitDashboard ==
    /\ \E d \in DashboardDbs : db = d.db /\ clock = d.now
    /\ nops = 0
    /\ pc = "idle"
    /\ req = NoCall3
    /\ trace = <<>>
    /\ llm = NoCall
    /\ outcome = [deleted |-> {}]

\* One handler call of a pipeline request.
Dashboard_Handler ==
    /\ nops < MaxDashOps
    /\ \E user \in PipelineUsers, intent \in DashboardIntents :
        LET h == handler_of(intent) IN
        \E order \in snapshot_orders(h, intent, db, user),
           google \in IF h = "handle_calendar" THEN GoogleOutcomes ELSE {"none"} :
            LET r == call_handler(h, user, "walked the dog", intent, db, order,
                                  NoCall, clock, google, FALSE)
            IN  /\ db' = r.db
                /\ req' = CallOf("handler", user, r.entry_id)
                /\ outcome' = DeletedBy(db, r.db)
    /\ nops' = nops + 1
    /\ UNCHANGED <<clock, pc, trace, llm>>

Dashboard_trash_item ==
    /\ nops < MaxDashOps
    /\ \E user \in Users, entry_id \in Ids(db.entries) :
        /\ db' = trash_item(db, user, entry_id, clock)
        /\ req' = CallOf("trash", user, entry_id)
        /\ outcome' = DeletedBy(db, db')
    /\ nops' = nops + 1
    /\ UNCHANGED <<clock, pc, trace, llm>>

Dashboard_restore_item ==
    /\ nops < MaxDashOps
    /\ \E user \in Users, entry_id \in Ids(db.entries) :
        /\ db' = restore_item(db, user, entry_id)
        /\ req' = CallOf("restore", user, entry_id)
        /\ outcome' = DeletedBy(db, db')
    /\ nops' = nops + 1
    /\ UNCHANGED <<clock, pc, trace, llm>>

Dashboard_permanent_delete ==
    /\ nops < MaxDashOps
    /\ \E user \in Users, entry_id \in Ids(db.entries) :
        /\ db' = permanent_delete(db, user, entry_id)
        /\ req' = CallOf("permanent", user, entry_id)
        /\ outcome' = DeletedBy(db, db')
    /\ nops' = nops + 1
    /\ UNCHANGED <<clock, pc, trace, llm>>

Dashboard_empty_trash ==
    /\ nops < MaxDashOps
    /\ \E user \in Users :
        /\ db' = empty_trash(db, user)
        /\ req' = CallOf("empty", user, 0)
        /\ outcome' = DeletedBy(db, db')
    /\ nops' = nops + 1
    /\ UNCHANGED <<clock, pc, trace, llm>>

\* The dashboard view: _purge_old_trash(db, user), then queries only.
Dashboard_dashboard ==
    /\ nops < MaxDashOps
    /\ \E user \in Users :
        /\ db' = _purge_old_trash(db, user, clock)
        /\ req' = CallOf("purge", user, 0)
        /\ outcome' = DeletedBy(db, db')
    /\ nops' = nops + 1
    /\ UNCHANGED <<clock, pc, trace, llm>>

\* Time passes: a day, or the ten days of the purge cutoff.
Dashboard_Tick ==
    /\ nops < MaxDashOps
    /\ \E days \in {1, PurgeAfter} : clock' = clock + days
    /\ nops' = nops + 1
    /\ UNCHANGED <<db, pc, req, trace, llm, outcome>>

NextDashboard ==
    \/ Dashboard_Handler
    \/ Dashboard_trash_item
    \/ Dashboard_restore_item
    \/ Dashboard_permanent_delete
    \/ Dashboard_empty_trash
    \/ Dashboard_dashboard
    \/ Dashboard_Tick

SpecDashboard == InitDashboard /\ [][NextDashboard]_vars

\* ======================================================= SpecConcurrent
\* Two workers serve requests of the same owner against one database, each
\* with its own session (get_db).  A handler is cut where it waits: between the
\* query that loads its snapshot (the open tasks, the group names) and the
\* writes that follow the matcher call or the loop.  Nothing in the code holds
\* a lock or checks a version between the two.  pc, req, llm and outcome are
\* functions of the worker here; trace keeps the steps of all requests, each
\* with the number k of its request and the number of task rows the database
\* held when the request loaded its snapshot.
Workers == {1, 2}
Owner == 1
ConcurrentIntents == {IntentCreateDog, IntentCreateTwo, IntentComplete, IntentJournal}
IdleWorker == [user |-> 0, intent |-> JNull, k |-> 0, loaded |-> 0,
               names |-> <<>>, open |-> {}]
Spoken == "walked the dog and bought milk"

InitConcurrent ==
    /\ \E s \in InitialDbs : db = s.db /\ clock = s.now
    /\ nops = 0
    /\ pc = [w \in Workers |-> "idle"]
    /\ req = [w \in Workers |-> IdleWorker]
    /\ trace = <<>>
    /\ llm = [w \in Workers |-> NoCall]
    /\ outcome = [w \in Workers |-> NoResult]

\* The steps a handler call logged, marked with the request they belong to.
Logged(w, steps) ==
    [i \in 1..Len(steps) |-> [k |-> req[w].k, loaded |-> req[w].loaded, step |-> steps[i]]]

\* A request reaches its handler and the handler runs its first query:
\* _create_tasks loads existing_groups, _complete_tasks loads open_tasks.  A
\* journal intent is handled at once (its rows are committed) and the
\* post-processing then loads open_tasks for the auto-completion.
Concurrent_Load(w) ==
    /\ pc[w] = "idle"
    /\ nops < MaxRequests
    /\ \E intent \in ConcurrentIntents :
        LET h == handler_of(intent)
            completes == Get(intent.kv["data"], "action", JStr("create")) = JStr("complete")
            k == nops + 1
        IN  \E order \in snapshot_orders(h, intent, db, Owner) :
            IF h = "handle_journal"
            THEN LET r == call_handler(h, Owner, Spoken, intent, db, order, NoCall,
                                       clock + 1, "none", FALSE)
                 IN  /\ db' = r.db
                     /\ req' = [req EXCEPT ![w] =
                                  [user |-> Owner, intent |-> intent, k |-> k,
                                   loaded |-> Len(db.tasks), names |-> <<>>,
                                   open |-> open_tasks_of(r.db, Owner)]]
                     /\ trace' = trace \o [i \in 1..Len(r.trace) |->
                                    [k |-> k, loaded |-> Len(db.tasks), step |-> r.trace[i]]]
                     /\ pc' = [pc EXCEPT ![w] = "auto"]
            ELSE /\ db' = db
                 /\ req' = [req EXCEPT ![w] =
                              [user |-> Owner, intent |-> intent, k |-> k,
                               loaded |-> Len(db.tasks), names |-> order,
                               open |-> IF completes THEN open_tasks_of(db, Owner) ELSE {}]]
                 /\ trace' = trace
                 /\ pc' = [pc EXCEPT ![w] = IF completes THEN "matching" ELSE "loop"]
    /\ nops' = nops + 1
    /\ clock' = clock + 1
    /\ UNCHANGED <<llm, outcome>>

\* The loop of _create_tasks, with the group names the handler loaded before.
Concurrent_Create(w) ==
    /\ pc[w] = "loop"
    /\ LET r == _create_tasks(Owner, Spoken, req[w].intent, db, req[w].names) IN
        /\ db' = r.db
        /\ trace' = trace \o Logged(w, r.trace)
        /\ outcome' = [outcome EXCEPT ![w] =
                          [raised |-> r.raised, reason |-> r.reason,
                           spoken_response |-> r.spoken_response,
                           entry_id |-> r.entry_id]]
    /\ pc' = [pc EXCEPT ![w] = "done"]
    /\ clock' = clock + 1
    /\ UNCHANGED <<nops, req, llm>>

\* The matcher answers and _complete_tasks runs its loop over the rows it
\* loaded before, commits, and stores its Entry.
Concurrent_Complete(w) ==
    /\ pc[w] = "matching"
    /\ \E call \in IF req[w].open # {} THEN MatcherCalls ELSE {NoCall} :
        LET r == _complete_tasks_from(Owner, Spoken, req[w].intent, db, req[w].open,
                                      call, clock + 1)
        IN  /\ db' = r.db
            /\ trace' = trace \o Logged(w, r.trace)
            /\ llm' = [llm EXCEPT ![w] = call]
            /\ outcome' = [outcome EXCEPT ![w] =
                              [raised |-> r.raised, reason |-> r.reason,
                               spoken_response |-> r.spoken_response,
                               entry_id |-> r.entry_id]]
    /\ pc' = [pc EXCEPT ![w] = "done"]
    /\ clock' = clock + 1
    /\ UNCHANGED <<nops, req>>

\* The matcher of the post-processing answers and auto_complete_tasks runs its
\* loop over the rows it loaded before.
Concurrent_AutoComplete(w) ==
    /\ pc[w] = "auto"
    /\ LET intents == <<req[w].intent>>
           would_call == req[w].open # {} /\ ~actions_done_of(intents).raised
                            /\ actions_done_of(intents).actions # <<>>
       IN  \E call \in IF would_call THEN MatcherCalls ELSE {NoCall} :
            LET a == auto_complete_tasks_from(Owner, intents, db, req[w].open, call,
                                              clock + 1)
                p == post_processing(a, db, <<>>)
            IN  /\ db' = p.db
                /\ trace' = IF p.completed # {}
                            THEN trace \o Logged(w, <<[dim |-> "auto",
                                                       matched |-> p.completed]>>)
                            ELSE trace
                /\ llm' = [llm EXCEPT ![w] = call]
                /\ outcome' = [outcome EXCEPT ![w] =
                                  [raised |-> p.escaped, reason |-> "",
                                   spoken_response |-> JNull, entry_id |-> 0]]
    /\ pc' = [pc EXCEPT ![w] = "done"]
    /\ clock' = clock + 1
    /\ UNCHANGED <<nops, req>>

\* The response goes back; the worker is free for the next request.
Concurrent_Return(w) ==
    /\ pc[w] = "done"
    /\ pc' = [pc EXCEPT ![w] = "idle"]
    /\ req' = [req EXCEPT ![w] = IdleWorker]
    /\ llm' = [llm EXCEPT ![w] = NoCall]
    /\ outcome' = [outcome EXCEPT ![w] = NoResult]
    /\ UNCHANGED <<db, clock, nops, trace>>

NextConcurrent ==
    \E w \in Workers :
        \/ Concurrent_Load(w)
        \/ Concurrent_Create(w)
        \/ Concurrent_Complete(w)
        \/ Concurrent_AutoComplete(w)
        \/ Concurrent_Return(w)

SpecConcurrent == InitConcurrent /\ [][NextConcurrent]_vars

\* ================================================================ claims
\* The classification call of the request in progress returned a text.
Classified == ~req.raw.failed /\ req.raw.text \in ClassifierTexts
Intents == ItemsOf(req.intents)

\* C1: for every classifier output that is not valid JSON, classify_intent does
\* not raise and returns exactly one intent, tagged memo, whose data.content is
\* the transcript, or the placeholder "Image processed" when there is none.
C1_NotJsonGivesFallbackMemo ==
    (Classified /\ json_loads(req.raw.text) = DecodeError) =>
        /\ outcome.status # "http_500"
        /\ IsList(req.intents)
        /\ Len(req.intents.items) = 1
        /\ IsDict(req.intents.items[1])
        /\ Get(req.intents.items[1], "module", JNull) = JStr("memo")
        /\ Get(Get(req.intents.items[1], "data", EmptyDict), "content", JNull)
             = JStr(IF req.transcript # "" THEN req.transcript ELSE "Image processed")

\* An image without text was classified, the answer was not JSON, and the
\* request went through to its response.
C1_Witness ==
    /\ Classified
    /\ json_loads(req.raw.text) = DecodeError
    /\ req.image /\ req.transcript = ""
    /\ pc = "done" /\ outcome.status = "returned"

\* The three shapes the parser accepts, and the shape every element must have.
IntentArrayOf(result) ==
    IF IsDict(result) /\ "intents" \in DOMAIN result.kv THEN result.kv["intents"]
    ELSE IF IsList(result) THEN result
    ELSE JList(<<result>>)
WellShaped(result) ==
    LET arr == IntentArrayOf(result) IN
    /\ IsList(arr)
    /\ \A i \in 1..Len(arr.items) :
          /\ IsDict(arr.items[i])
          /\ {"module", "data"} \subseteq DOMAIN arr.items[i].kv

\* C2: a classifier output that parses as JSON but lacks the required shape (no
\* intents array of objects carrying module and data) gives the single fallback
\* memo intent; the parsed value is not passed on to the dispatcher.
C2_IllShapedGivesFallbackMemo ==
    (Classified /\ json_loads(req.raw.text) # DecodeError
                /\ ~WellShaped(json_loads(req.raw.text))) =>
        req.intents = JList(<<FallbackMemo(req.transcript)>>)

\* C3: the list classify_intent hands to the dispatcher is never empty.
C3_IntentListNeverEmpty ==
    Classified => (IsList(req.intents) /\ req.intents.items # <<>>)

\* C4: when the classification call succeeded, process_input returns a
\* response and does not raise, whatever text the classifier returned.
C4_ClassifiedRequestReturns ==
    (pc = "done" /\ Classified) => outcome.status = "returned"

\* C5: when the handler of intent k raises, the failure is caught, contributes
\* an "Error processing <module>" string at position k of the responses, and
\* every later intent of the batch is still dispatched: the loop ends only
\* after one handler call per intent.
C5_HandlerFailureIsIsolated ==
    /\ \A k \in 1..Len(req.log) :
          /\ req.log[k].handler = handler_of(Intents[k])
          /\ req.log[k].raised =>
                /\ req.responses[k].kind = "error"
                /\ req.responses[k].module = Get(Intents[k], "module", JStr("memo"))
          /\ ~req.log[k].raised => req.responses[k].kind = "ok"
    /\ pc = "dispatch" => Len(req.log) < Len(Intents)
    /\ (pc = "post" \/ (pc = "done" /\ outcome.status = "returned")) =>
          Len(req.log) = Len(Intents)

\* The first handler of a batch of two raised, the second one ran and stored
\* its rows, and the response came back.
C5_Witness ==
    /\ pc = "done" /\ outcome.status = "returned"
    /\ Len(req.log) = 2
    /\ req.log[1].raised /\ ~req.log[2].raised
    /\ req.log[2].handler = "handle_journal"
    /\ outcome.spoken_response[1].kind = "error"
    /\ outcome.spoken_response[2].kind = "ok"
    /\ \E i \in 1..Len(db.journal) : db.journal[i].entry_id = outcome.entry_id

\* The label resolutions of the request in progress, by dimension.
StepsOf(dim) == SelectSeq(trace, LAMBDA e : e.step.dim = dim)
ResolutionSteps == SelectSeq(trace, LAMBDA e : e.step.dim \in {"group", "category", "topic"})
SameIgnoringCase(a, b) == IsStr(a) /\ IsStr(b) /\ Lower(a.s) = Lower(b.s)

\* The row a resolution step stored, and the label it carries.
StoredLabel(e) ==
    CASE e.step.dim = "group" -> Row(db.tasks, e.step.row).group
      [] e.step.dim = "category" -> Row(db.remember, e.step.row).category
      [] e.step.dim = "topic" -> Row(db.journal, e.step.row).topic

\* C6: in a batch whose task specs (of one task intent or of several) request
\* the same novel group label up to letter case, every persisted task carries
\* the same group string, the variant seen first.
C6_NovelGroupHasOneSpelling ==
    LET G == StepsOf("group")
        Novel(c) == \A g \in req.groups0 : ~SameIgnoringCase(g, c)
        First(j) == CHOOSE i \in 1..j :
                       /\ SameIgnoringCase(G[i].step.candidate, G[j].step.candidate)
                       /\ \A h \in 1..(i - 1) :
                             ~SameIgnoringCase(G[h].step.candidate, G[j].step.candidate)
    IN  \A j \in 1..Len(G) :
           (IsStr(G[j].step.candidate) /\ Novel(G[j].step.candidate)) =>
               StoredLabel(G[j]) = G[First(j)].step.candidate

\* Three specs spread over two task intents asked for three spellings of a
\* group the user did not have, and the batch is over.
C6_Witness ==
    LET G == StepsOf("group") IN
    /\ pc = "done" /\ req.groups0 = {}
    /\ Len(G) = 3
    /\ G[1].k # G[2].k /\ G[2].k = G[3].k
    /\ Cardinality({G[i].step.candidate : i \in 1..3}) = 3
    /\ \A i \in 1..3 : SameIgnoringCase(G[i].step.candidate, G[1].step.candidate)
    /\ \A i \in 1..3 : StoredLabel(G[i]) = G[1].step.candidate

\* C7: taxonomy resolution in the task, remember and journal handlers returns
\* the first label of the snapshot that equals the candidate ignoring case;
\* when none does, it returns the candidate unchanged and appends it to the
\* snapshot, which the next item of the handler then sees.  The resolved label
\* is the one stored.
Matching(snapshot, c) ==
    {i \in 1..Len(snapshot) : SameIgnoringCase(snapshot[i], c)}
C7_ResolutionIsFirstCaseInsensitiveMatch ==
    LET R == ResolutionSteps IN
    /\ \A n \in 1..Len(R) :
          LET e == R[n].step
              M == Matching(e.snapshot, e.candidate)
          IN  /\ M # {} =>
                    /\ \E i \in M : (\A h \in M : i <= h) /\ e.result = e.snapshot[i]
                    /\ e.after = e.snapshot
              /\ M = {} =>
                    /\ e.result = e.candidate
                    /\ e.after = Append(e.snapshot, e.candidate)
              /\ StoredLabel(R[n]) = e.result
    /\ \A n \in 1..(Len(R) - 1) :
          R[n].k = R[n + 1].k => R[n + 1].step.snapshot = R[n].step.after

\* A group was resolved against a snapshot holding two spellings of it, to the
\* first of them although the second one is the candidate itself; and a topic
\* that matched nothing was appended and then reused by the next activity.
C7_Witness ==
    /\ \E n \in 1..Len(trace) :
          LET e == trace[n].step IN
          /\ e.dim = "group"
          /\ Len(e.snapshot) = 2
          /\ Matching(e.snapshot, e.candidate) = {1, 2}
          /\ e.snapshot[2] = e.candidate
          /\ e.result = e.snapshot[1]
          /\ e.result # e.candidate
    /\ \E n \in 1..(Len(trace) - 1) :
          LET e == trace[n].step
              f == trace[n + 1].step
          IN  /\ e.dim = "topic" /\ f.dim = "topic"
              /\ Matching(e.snapshot, e.candidate) = {}
              /\ e.after = Append(e.snapshot, e.candidate)
              /\ f.candidate # e.candidate /\ f.result = e.candidate

\* C8: a task spec that omits priority is persisted with priority this_week.
C8_OmittedPriorityIsThisWeek ==
    LET G == StepsOf("group") IN
    \A j \in 1..Len(G) :
        "priority" \notin DOMAIN G[j].step.item.kv =>
            Row(db.tasks, G[j].step.row).priority = JStr("this_week")

\* C9: in every reachable state each task has completed_at set if and only if
\* its status is done.
C9_CompletedAtIffDone ==
    \A i \in 1..Len(db.tasks) :
        (db.tasks[i].completed_at # 0) <=> (db.tasks[i].status = "done")

\* A task that had been completed was reopened on the dashboard, and another
\* one was completed by the pipeline after it had been created.
C9_Witness ==
    /\ \E i \in 1..Len(FilledDb.tasks) :
          /\ Len(db.tasks) >= Len(FilledDb.tasks)
          /\ db.tasks[i].status = "open" /\ db.tasks[i].completed_at = 0
          /\ [db.tasks[i] EXCEPT !.status = "done", !.completed_at = 4] = FilledDb.tasks[i]
    /\ \E n \in 1..Len(trace) : trace[n].step.dim \in {"complete", "auto"}
    /\ \E i \in 1..Len(db.tasks) :
          db.tasks[i].status = "done" /\ db.tasks[i].completed_at = clock

\* The ids the matcher call of the step returned.
ReturnedIds(call) ==
    IF call.failed \/ call.text \notin MatcherTexts THEN {}
    ELSE LET result == json_loads(call.text) IN
         IF result = DecodeError \/ ~IsDict(result) THEN {}
         ELSE LET ids == Get(result, "matched_ids", EmptyList) IN
              {ids.items[i].n : i \in 1..Len(ItemsOf(ids))}

\* The dispatch step for a task intent with action complete, whose handler
\* returned.
CompletionStep ==
    /\ pc = "dispatch"
    /\ handler_of(Intents[req.k]) = "handle_task"
    /\ IsDict(Get(Intents[req.k], "data", EmptyDict))
    /\ Get(Get(Intents[req.k], "data", EmptyDict), "action", JNull) = JStr("complete")
    /\ Len(req'.log) = req.k
    /\ ~req'.log[req.k].raised

\* C10: a task-complete intent whose matcher returns the id of an open task T
\* of the owner leaves T with status done and completed_at set, and leaves
\* every other task as it was.
C10_CompletionClosesExactlyTheMatched ==
    [][CompletionStep =>
        /\ Len(db'.tasks) = Len(db.tasks)
        /\ \A i \in 1..Len(db.tasks) :
              IF /\ db.tasks[i].id \in ReturnedIds(llm')
                 /\ OwnedBy(db, db.tasks[i], req.user)
                 /\ db.tasks[i].status = "open"
              THEN /\ db'.tasks[i].status = "done"
                   /\ db'.tasks[i].completed_at # 0
                   /\ db'.tasks[i] = [db.tasks[i] EXCEPT !.status = "done",
                                         !.completed_at = db'.tasks[i].completed_at]
              ELSE db'.tasks[i] = db.tasks[i]]_vars

\* Two tasks created by a task-create intent of an earlier request; a later
\* task-complete intent whose matcher named the first one has closed it, and
\* the second one is still open.
C10_Witness ==
    /\ Len(db.tasks) = 2
    /\ \A i \in 1..2 : db.tasks[i].priority # JStr("this_week")
    /\ \E n \in 1..Len(trace) :
          trace[n].step.dim = "complete" /\ trace[n].step.matched = {db.tasks[1].id}
    /\ db.tasks[1].status = "done" /\ db.tasks[1].completed_at = clock
    /\ db.tasks[2].status = "open" /\ db.tasks[2].completed_at = 0
    /\ req.tasks0 = 2


\* The open tasks of the owner that the matcher call of the step named.
NamedOpenTasks ==
    {i \in open_tasks_of(db, req.user) : db.tasks[i].id \in ReturnedIds(llm')}

\* C11: a task-complete intent for which the matcher yields no match, or
\* whose owner has no open task (the matcher is then not called), changes the
\* status of no task and persists exactly one Record, of module task and of
\* the owner, that logs the attempt with zero completions.
C11_NoMatchLogsTheAttempt ==
    [][(CompletionStep /\ NamedOpenTasks = {}) =>
        /\ db'.tasks = db.tasks
        /\ open_tasks_of(db, req.user) = {} => llm' = NoCall
        /\ Len(db'.entries) = Len(db.entries) + 1
        /\ SubSeq(db'.entries, 1, Len(db.entries)) = db.entries
        /\ LET entry == db'.entries[Len(db'.entries)] IN
           /\ entry.module = JStr("task")
           /\ entry.user_id = req.user
           /\ entry.id \notin Ids(db.entries)
           /\ Len(trace') = Len(trace) + 1
           /\ trace'[Len(trace')].step.dim = "complete"
           /\ trace'[Len(trace')].step.entry = entry.id
           /\ trace'[Len(trace')].step.processed_content = 0
        /\ db'.remember = db.remember /\ db'.journal = db.journal
        /\ db'.calendar = db.calendar]_vars

\* The owner had an open task, the matcher was called and named only a task
\* of another owner: the open task is still open and the attempt is logged.
C11_Witness ==
    /\ pc = "post"
    /\ llm = CallReturned(Match3)
    /\ \E n \in 1..Len(trace) :
          /\ trace[n].step.dim = "complete"
          /\ trace[n].step.matched = {}
          /\ Row(db.entries, trace[n].step.entry).module = JStr("task")
    /\ db.tasks = FilledDb.tasks
    /\ Len(db.entries) = Len(FilledDb.entries) + 1


\* C12: when a task-complete intent matches no open task (zero open tasks
\* included), the confirmation the task handler returns for that intent is the
\* "couldn't find a matching open task" message, whether or not the intent
\* carries a spoken_response of its own.
C12_NoMatchConfirmation ==
    [][(CompletionStep /\ NamedOpenTasks = {}) =>
        /\ Len(req'.responses) = req.k
        /\ req'.responses[req.k].kind = "ok"
        /\ req'.responses[req.k].text = JStr(NoMatchResponse)]_vars


\* The dispatch step for a task intent with action complete, whatever its
\* handler did.
CompletionDispatch ==
    /\ pc = "dispatch"
    /\ handler_of(Intents[req.k]) = "handle_task"
    /\ IsDict(Get(Intents[req.k], "data", EmptyDict))
    /\ Get(Get(Intents[req.k], "data", EmptyDict), "action", JNull) = JStr("complete")
    /\ Len(req'.log) = req.k

\* The matcher call failed, or its answer is not JSON, or not an object whose
\* matched_ids is an array.
MatcherUnusable(call) ==
    \/ call.failed
    \/ /\ call.text \in MatcherTexts
       /\ LET result == json_loads(call.text) IN
          \/ result = DecodeError
          \/ ~IsDict(result)
          \/ ~IsList(Get(result, "matched_ids", JNull))

\* C13: the Task Matcher never raises: when its call fails, or its answer is
\* unparseable or not an object with a matched_ids array, the task-complete
\* intent proceeds as with zero matches: no task changes, the attempt Record
\* is persisted and the intent's confirmation is no error string.
C13_MatcherNeverRaises ==
    [][(CompletionDispatch /\ llm' # NoCall /\ MatcherUnusable(llm')) =>
        /\ ~req'.log[req.k].raised
        /\ req'.responses[req.k].kind = "ok"
        /\ db'.tasks = db.tasks
        /\ Len(db'.entries) = Len(db.entries) + 1]_vars


\* C14: explicit completion and auto-completion transition only tasks of the
\* open-task list given to the matcher: a task changes in a dispatch or
\* post-processing step only if it was an open task of the owner and the
\* matcher named it; an id the matcher returns that is not in the list (an
\* unknown id, a done task, another owner's task) changes no state.
C14_OnlyListedTasksTransition ==
    [][(pc \in {"dispatch", "post"}) =>
        /\ Len(db'.tasks) >= Len(db.tasks)
        /\ \A i \in 1..Len(db.tasks) :
              /\ db'.tasks[i] # db.tasks[i] =>
                    /\ i \in open_tasks_of(db, req.user)
                    /\ db.tasks[i].id \in ReturnedIds(llm')
              /\ i \notin open_tasks_of(db, req.user) => db'.tasks[i] = db.tasks[i]
        /\ (ReturnedIds(llm') \cap {db.tasks[i].id : i \in open_tasks_of(db, req.user)} = {})
              => SubSeq(db'.tasks, 1, Len(db.tasks)) = db.tasks]_vars

\* The post-processing matcher was given the owner's only open task and named
\* it together with a task that was done already: the first is closed now, the
\* second keeps its earlier completion time, and the other owner's task is
\* still open.
C14_Witness ==
    /\ pc = "done" /\ outcome.status = "returned"
    /\ llm = CallReturned(Match12)
    /\ ReturnedIds(llm) = {1, 2}
    /\ Len(db.tasks) = 3
    /\ db.tasks[1].status = "done" /\ db.tasks[1].completed_at = clock
    /\ db.tasks[2] = FilledDb.tasks[2] /\ db.tasks[2].completed_at # clock
    /\ db.tasks[3] = FilledDb.tasks[3]
    /\ \E n \in 1..Len(trace) : trace[n].step.dim = "auto" /\ trace[n].step.matched = {1}


\* C15: the auto-completion pass runs exactly once per request and only after
\* the handler of every intent of the batch has returned or failed: the
\* request enters post-processing with one log entry per intent, leaves it for
\* good, records at most one auto-completion, and before it no step other
\* than the dispatch of a task-complete intent changes an existing task.
C15_AutoCompletionOnceAfterDispatch ==
    [][/\ pc' = "post" =>
            /\ pc \in {"idle", "dispatch"}
            /\ Len(req'.log) = Len(ItemsOf(req'.intents))
            /\ Len(StepsOf("auto")') = 0
       /\ pc = "post" =>
            /\ pc' = "done"
            /\ req'.log = req.log
            /\ Len(StepsOf("auto")') <= 1
       /\ Len(StepsOf("auto")') > Len(StepsOf("auto")) => pc = "post"
       /\ (pc = "dispatch" /\ ~CompletionDispatch) =>
            SubSeq(db'.tasks, 1, Len(db.tasks)) = db.tasks]_vars

\* A batch of two intents, the first of which failed and the second returned,
\* has been dispatched; the pass ran after both and closed the open task.
C15_Witness ==
    /\ pc = "done" /\ outcome.status = "returned"
    /\ Len(req.log) = 2 /\ req.log[1].raised /\ ~req.log[2].raised
    /\ Len(StepsOf("auto")) = 1
    /\ StepsOf("auto")[1].step.matched = {1}
    /\ trace[Len(trace)].step.dim = "auto"
    /\ db.tasks[1].status = "done" /\ db.tasks[1].completed_at = clock


\* The "Also marked as done" sentences of a response list.
AlsoDone(responses) == SelectSeq(responses, LAMBDA r : r.kind = "also_done")

\* The post-processing step of a batch that yields a non-empty activity list,
\* for an owner with at least one open task.
AutoCompletionStep ==
    /\ pc = "post"
    /\ open_tasks_of(db, req.user) # {}
    /\ ~actions_done_of(Intents).raised
    /\ actions_done_of(Intents).actions # <<>>

\* C16: when the batch yields a non-empty activity list and the owner has an
\* open task, the post-processing matcher is called once, against all open
\* tasks of the owner; exactly the open tasks whose ids it returns become
\* done, and the response gets exactly one "Also marked as done" sentence
\* appended if and only if at least one task was transitioned.
C16_AutoCompletionClosesTheMatched ==
    [][AutoCompletionStep =>
        /\ llm' \in MatcherCalls
        /\ Len(db'.tasks) = Len(db.tasks)
        /\ \A i \in 1..Len(db.tasks) :
              IF i \in NamedOpenTasks
              THEN db'.tasks[i] = [db.tasks[i] EXCEPT !.status = "done",
                                                      !.completed_at = clock]
              ELSE db'.tasks[i] = db.tasks[i]
        /\ AlsoDone(req.responses) = <<>>
        /\ req'.responses = IF NamedOpenTasks # {}
                            THEN Append(req.responses,
                                        [kind |-> "also_done", module |-> JNull,
                                         text |-> JStr("Also marked as done")])
                            ELSE req.responses]_vars

\* The owner had two open tasks, created by an earlier request; the activities
\* of this batch were matched against both, both are done now and the
\* response ends with the one sentence that says so.
C16_Witness ==
    /\ pc = "done" /\ outcome.status = "returned"
    /\ llm = CallReturned(Match12)
    /\ Len(db.tasks) = 2
    /\ \A i \in 1..2 : /\ OwnedBy(db, db.tasks[i], req.user)
                       /\ db.tasks[i].status = "done"
                       /\ db.tasks[i].completed_at = clock
    /\ Len(StepsOf("auto")) = 1 /\ StepsOf("auto")[1].step.matched = {1, 2}
    /\ Len(AlsoDone(outcome.spoken_response)) = 1
    /\ outcome.spoken_response[Len(outcome.spoken_response)].kind = "also_done"


\* The modules from which no activity is derived.
NonActionable == {JStr("task"), JStr("mood"), JStr("remember"), JStr("diary")}

\* C17: the activity list of the auto-completion pass is derived only from
\* non-task intents and skips mood, remember and diary intents: the
\* post-processing of a batch made only of task, mood, remember and diary
\* intents calls no matcher, completes no task and appends nothing to the
\* response.
C17_NonActionableBatchCallsNoMatcher ==
    [][(/\ pc = "post"
        /\ \A i \in 1..Len(Intents) : Get(Intents[i], "module", JStr("")) \in NonActionable) =>
        /\ llm' = NoCall
        /\ db' = db
        /\ req'.responses = req.responses
        /\ StepsOf("auto")' = <<>>]_vars

\* A remember intent and a mood intent were dispatched for an owner who has an
\* open task; the request returned without a matcher call and the task is
\* still open.
C17_Witness ==
    /\ pc = "done" /\ outcome.status = "returned"
    /\ Len(Intents) = 2
    /\ Get(Intents[1], "module", JNull) = JStr("remember")
    /\ Get(Intents[2], "module", JNull) = JStr("mood")
    /\ \A i \in 1..2 : ~req.log[i].raised
    /\ open_tasks_of(db, req.user) # {}
    /\ llm = NoCall
    /\ AlsoDone(outcome.spoken_response) = <<>>


\* A failure inside the pass: the derivation of the activity list raises, or
\* the matcher call fails, or its answer cannot be parsed or applied.
AutoCompletionFails ==
    /\ pc = "post"
    /\ open_tasks_of(db, req.user) # {}
    /\ \/ actions_done_of(Intents).raised
       \/ llm' # NoCall /\ MatcherUnusable(llm')

\* C18: any failure inside the auto-completion pass is swallowed: the request
\* still returns, its response is made of the per-intent confirmations of the
\* dispatch, and what the dispatch persisted stays as it is.
C18_AutoCompletionFailureIsSwallowed ==
    [][AutoCompletionFails =>
        /\ outcome'.status = "returned"
        /\ outcome'.spoken_response = req.responses
        /\ Len(outcome'.spoken_response) = Len(Intents)
        /\ db' = db]_vars

\* The matcher answered with a matched_ids that is no array, so applying it
\* raised; the request returned the confirmation of its intents, the Record
\* of the dispatch is stored and no task changed.
C18_Witness ==
    /\ pc = "done" /\ outcome.status = "returned"
    /\ llm = CallReturned(MatchBare)
    /\ auto_complete_tasks(req.user, Intents, db, llm, clock).raised
    /\ Len(Intents) >= 1
    /\ outcome.spoken_response = req.responses
    /\ \A i \in 1..Len(Intents) : req.responses[i].kind = "ok"
    /\ Len(db.entries) > Len(FilledDb.entries)
    /\ db.tasks = FilledDb.tasks


\* The tag of the intent being dispatched; NoTag when it has none.
NoTag == [t |-> "absent"]
TagOf(intent) == Get(intent, "module", NoTag)
InTable(tag) == IsStr(tag) /\ tag.s \in DOMAIN MODULE_HANDLERS

C20_ClassificationFailureFailsTheRequest ==
    [][/\ (pc = "idle" /\ req'.raw.failed) =>
            /\ pc' = "done"
            /\ outcome'.status = "http_500"
            /\ req'.log = <<>> /\ req'.responses = <<>> /\ trace' = <<>>
            /\ db' = db
       /\ req.raw.failed =>
            /\ pc = "done" /\ pc' = "idle"
            /\ db' = db]_vars

\* A request on a database that holds tasks and Records: the classification
\* call failed, the request ended with the error, nothing was dispatched and
\* the database is as it was.
C20_Witness ==
    /\ pc = "done"
    /\ req.raw = CallFailed
    /\ outcome.status = "http_500"
    /\ req.log = <<>> /\ req.responses = <<>>
    /\ db = FilledDb
    /\ open_tasks_of(db, req.user) # {}


\* C21: the parser accepts three response shapes: an object with an intents
\* array yields that array, a bare array yields the array itself, and a single
\* legacy object without the intents wrapper yields a one-element list holding
\* that object; the elements keep their order.
C21_ParserAcceptsThreeShapes ==
    (Classified /\ json_loads(req.raw.text) # DecodeError) =>
        LET result == json_loads(req.raw.text) IN
        /\ (IsDict(result) /\ "intents" \in DOMAIN result.kv /\ IsList(result.kv["intents"])) =>
              /\ IsList(req.intents)
              /\ Len(req.intents.items) = Len(result.kv["intents"].items)
              /\ \A i \in 1..Len(req.intents.items) :
                    req.intents.items[i] = result.kv["intents"].items[i]
        /\ IsList(result) =>
              /\ IsList(req.intents)
              /\ Len(req.intents.items) = Len(result.items)
              /\ \A i \in 1..Len(req.intents.items) : req.intents.items[i] = result.items[i]
        /\ (IsDict(result) /\ "intents" \notin DOMAIN result.kv) =>
              req.intents = JList(<<result>>)

\* The classifier answered with a single object that has no intents wrapper;
\* it was dispatched as the only intent of the batch and stored.
C21_Witness ==
    /\ Classified
    /\ req.raw.text = RawLegacy
    /\ IsDict(json_loads(req.raw.text)) /\ "intents" \notin DOMAIN json_loads(req.raw.text).kv
    /\ req.intents = JList(<<IntentLegacy>>)
    /\ pc = "done" /\ outcome.status = "returned"
    /\ Len(req.log) = 1 /\ ~req.log[1].raised


\* The invocation of a handler in SpecHandlers, for an intent other than a
\* task completion (whose Record has no sub-entity by design).
CreatingInvocation ==
    /\ pc = "ready" /\ pc' = "called"
    /\ ~(/\ handler_of(req.intent) = "handle_task"
         /\ IsDict(Get(req.intent, "data", EmptyDict))
         /\ Get(Get(req.intent, "data", EmptyDict), "action", JNull) = JStr("complete"))

\* The rows of a sub-entity table that belong to the Record.
SubEntities(d, entry) ==
    CASE entry.module = JStr("task") -> {i \in 1..Len(d.tasks) : d.tasks[i].entry_id = entry.id}
      [] entry.module = JStr("remember") ->
            {i \in 1..Len(d.remember) : d.remember[i].entry_id = entry.id}
      [] entry.module = JStr("journal") ->
            {i \in 1..Len(d.journal) : d.journal[i].entry_id = entry.id}
      [] entry.module = JStr("calendar") ->
            {i \in 1..Len(d.calendar) : d.calendar[i].entry_id = entry.id}
      [] OTHER -> {}

\* C22: every Record and its sub-entity are created together: when a handler
\* invocation has returned or failed, each Record of module task (create
\* path), remember, journal or calendar that it persisted has its Task,
\* RememberItem, JournalEntry or CalendarEvent row.
C22_RecordAndSubEntityTogether ==
    [][CreatingInvocation =>
        \A i \in 1..Len(db'.entries) :
            (/\ db'.entries[i].id \notin Ids(db.entries)
             /\ db'.entries[i].module \in
                   {JStr("task"), JStr("remember"), JStr("journal"), JStr("calendar")}) =>
                Cardinality(SubEntities(db', db'.entries[i])) = 1]_vars


\* The task specs of the create payload being handled in SpecHandlers.
SpecsOf(intent) == ItemsOf(Get(Get(intent, "data", EmptyDict), "tasks", EmptyList))

\* C26: a task spec whose due value is present but is no valid ISO date never
\* fails task creation: its task is persisted in state open with due_date
\* unset, a valid due value is stored, and every spec of the payload is
\* processed.
C26_MalformedDueIsSwallowed ==
    (/\ pc = "called"
     /\ handler_of(req.intent) = "handle_task"
     /\ SpecsOf(req.intent) # <<>>
     /\ \A i \in 1..Len(SpecsOf(req.intent)) : IsDict(SpecsOf(req.intent)[i])) =>
        LET G == StepsOf("group") IN
        /\ ~outcome.raised
        /\ Len(G) = Len(SpecsOf(req.intent))
        /\ \A j \in 1..Len(G) :
              LET item == G[j].step.item
                  due == Get(item, "due", JNull)
                  task == Row(db.tasks, G[j].step.row)
              IN  /\ item = SpecsOf(req.intent)[j]
                  /\ task.status = "open"
                  /\ ("due" \in DOMAIN item.kv /\ ~IsoValid(due)) => task.due_date = ""
                  /\ IsoValid(due) => task.due_date = due.s

\* A payload of two specs, the first with a due value that is no date and the
\* second with a valid one: both tasks are stored, the first without a due
\* date.
C26_Witness ==
    /\ pc = "called"
    /\ req.intent = IntentCreateDue
    /\ ~outcome.raised
    /\ Len(StepsOf("group")) = 2
    /\ Get(StepsOf("group")[1].step.item, "due", JNull) = JStr("next friday")
    /\ Row(db.tasks, StepsOf("group")[1].step.row).due_date = ""
    /\ Row(db.tasks, StepsOf("group")[1].step.row).status = "open"
    /\ Row(db.tasks, StepsOf("group")[2].step.row).due_date = "2026-02-20"


Priorities == {JStr("urgent"), JStr("do_today"), JStr("this_week"), JStr("keep_in_mind")}

\* C27: every task persisted by the create path has a priority in {urgent,
\* do_today, this_week, keep_in_mind}: a priority value of the payload outside
\* this set is replaced by this_week.
C27_PriorityIsOneOfFour ==
    pc = "called" =>
        \A j \in 1..Len(StepsOf("group")) :
            LET item == StepsOf("group")[j].step.item
                task == Row(db.tasks, StepsOf("group")[j].step.row)
            IN  /\ task.priority \in Priorities
                /\ ("priority" \in DOMAIN item.kv /\ item.kv["priority"] \notin Priorities) =>
                      task.priority = JStr("this_week")


\* C23: within one request the handlers run one at a time in the order of the
\* classifier's intent list: after k handler calls the responses hold one
\* string for each of the first k intents, in that order, and every effect of
\* handler k precedes every effect of handler k+1.  The response that is
\* returned is exactly one confirmation or error string per intent, in the
\* order of the intents, followed by at most one auto-completion sentence, and
\* its module is the module of the first intent.
C23_SequentialDispatchInOrder ==
    Classified =>
        /\ pc = "dispatch" => Len(req.log) = req.k - 1
        /\ pc \in {"dispatch", "post"} => Len(req.responses) = Len(req.log)
        /\ \A i \in 1..Len(req.log) :
              /\ req.responses[i].kind \in {"ok", "error"}
              /\ req.responses[i].module = Get(Intents[i], "module", JStr("memo"))
        /\ \A i, j \in 1..Len(trace) :
              (i < j /\ trace[j].k # 0) =>
                  /\ trace[i].k # 0
                  /\ trace[i].k <= trace[j].k
                  /\ trace[j].k <= Len(req.log)
        /\ (pc = "done" /\ outcome.status = "returned") =>
              LET out == outcome.spoken_response
                  n == Len(Intents)
              IN  /\ Len(req.log) = n
                  /\ Len(out) \in {n, n + 1}
                  /\ SubSeq(out, 1, n) = SubSeq(req.responses, 1, n)
                  /\ Len(out) = n + 1 => out[n + 1].kind = "also_done"
                  /\ Len(AlsoDone(out)) <= 1
                  /\ n > 0 => outcome.module = Get(Intents[1], "module", JStr("memo"))

\* A batch of two intents with different modules came back with the strings of
\* both handlers, in the order of the intents, and the auto-completion
\* sentence after them; both handlers had stored rows, the first before the
\* second.
C23_Witness ==
    /\ pc = "done" /\ outcome.status = "returned"
    /\ Len(Intents) = 2
    /\ Get(Intents[1], "module", JStr("memo")) # Get(Intents[2], "module", JStr("memo"))
    /\ Len(outcome.spoken_response) = 3
    /\ outcome.spoken_response[1].module = outcome.module
    /\ outcome.spoken_response[2].module # outcome.module
    /\ outcome.spoken_response[3].kind = "also_done"
    /\ \E i, j \in 1..Len(trace) : trace[i].k = 1 /\ trace[j].k = 2


\* An invocation of the generic store handler.
MemoInvocation ==
    /\ pc = "ready" /\ pc' = "called"
    /\ Hashable(Get(req.intent, "module", JStr("memo")))
    /\ handler_of(req.intent) = "handle_memo"

\* The payload of an intent is empty or missing: no data key, or a data that
\* is null or an empty object.
PayloadEmptyOrMissing(intent) ==
    \/ "data" \notin DOMAIN intent.kv
    \/ intent.kv["data"] \in {JNull, EmptyDict}

\* C28: an invocation of the generic store handler persists exactly one
\* Record, with the module tag of the intent and its payload as it is, adds
\* no Task, RememberItem, JournalEntry or CalendarEvent row and resolves no
\* label; it succeeds when the payload of the intent is empty or missing.
C28_MemoStoresOneRecord ==
    [][MemoInvocation =>
        /\ PayloadEmptyOrMissing(req.intent) => ~outcome'.raised
        /\ ~outcome'.raised =>
              /\ Len(db'.entries) = Len(db.entries) + 1
              /\ SubSeq(db'.entries, 1, Len(db.entries)) = db.entries
              /\ LET entry == db'.entries[Len(db'.entries)] IN
                    /\ entry.id = outcome'.entry_id
                    /\ entry.user_id = req.user
                    /\ entry.module = Get(req.intent, "module", JStr("memo"))
                    /\ Len(trace') = 1
                    /\ trace'[1].step.dim = "memo"
                    /\ trace'[1].step.entry = entry.id
                    /\ ~PayloadEmptyOrMissing(req.intent) =>
                          trace'[1].step.module_data = req.intent.kv["data"]
        /\ db'.tasks = db.tasks
        /\ db'.remember = db.remember
        /\ db'.journal = db.journal
        /\ db'.calendar = db.calendar
    ]_vars


\* A step of process_input (the dashboard acts only between requests).
PipelineStep == pc # "idle" \/ pc' # "idle"

\* table grew at its end only: the rows it had are the rows it has.
Extends(old, new) ==
    /\ Len(new) >= Len(old)
    /\ SubSeq(new, 1, Len(old)) = old

\* C29: no step of the processing of a batch modifies or deletes a Record that
\* exists: every field of every persisted Record, its soft-delete timestamp
\* included, is unchanged; the step only adds Records and sub-entity rows, and
\* the only change to an existing row is a task going from open to done.
C29_PipelineLeavesRecordsAlone ==
    [][PipelineStep =>
        /\ Extends(db.entries, db'.entries)
        /\ Extends(db.remember, db'.remember)
        /\ Extends(db.journal, db'.journal)
        /\ Extends(db.calendar, db'.calendar)
        /\ Len(db'.tasks) >= Len(db.tasks)
        /\ \A i \in 1..Len(db.tasks) :
              \/ db'.tasks[i] = db.tasks[i]
              \/ /\ db.tasks[i].status = "open"
                 /\ db'.tasks[i] = [db.tasks[i] EXCEPT !.status = "done",
                                                       !.completed_at = clock]
    ]_vars

\* A request has come back that added a Record and completed the task of a
\* Record that was in the trash before the request; that Record still has its
\* soft-delete timestamp.
C29_Witness ==
    /\ pc = "done" /\ outcome.status = "returned"
    /\ Len(db.entries) > Len(FilledDb.entries)
    /\ \E i \in 1..Len(FilledDb.entries), j \in 1..Len(db.tasks), e \in 1..Len(trace) :
          /\ db.entries[i] = FilledDb.entries[i]
          /\ db.entries[i].deleted_at # 0
          /\ db.tasks[j].entry_id = db.entries[i].id
          /\ db.tasks[j].status = "done"
          /\ trace[e].step.dim \in {"complete", "auto"}
          /\ db.tasks[j].id \in trace[e].step.matched


\* The owner a step of process_input acts for.
Requester == IF pc = "idle" THEN req'.user ELSE req.user

\* The table and the column of a taxonomy dimension.
TableOf(dim) ==
    CASE dim = "group" -> db.tasks
      [] dim = "category" -> db.remember
      [] dim = "topic" -> db.journal
ColumnOf(dim) ==
    CASE dim = "group" -> "group"
      [] dim = "category" -> "category"
      [] dim = "topic" -> "topic"

\* The labels the requester's rows carried before the request in progress.
OwnLabelsBefore(dim) ==
    LET written == {StepsOf(dim)[n].step.row : n \in 1..Len(StepsOf(dim))}
        T == TableOf(dim)
    IN  {T[i][ColumnOf(dim)] : i \in {j \in 1..Len(T) :
            OwnedBy(db, T[j], req.user) /\ T[j].id \notin written}}

\* C30: task and taxonomy effects are scoped to the requesting owner.  No step
\* of a batch of owner A changes a task of another user, whatever ids the
\* matcher returns; the dashboard's complete and reopen, looked up for A, change
\* no task of another user; and every label a handler resolves to is one of
\* A's own labels or a candidate of the request, never a label that only
\* another user's rows carry.
C30_EffectsScopedToOwner ==
    [][/\ PipelineStep =>
            \A j \in 1..Len(db.tasks) :
                ~OwnedBy(db, db.tasks[j], Requester) => db'.tasks[j] = db.tasks[j]
       /\ pc = "idle" =>
            \A A \in Users, t \in Ids(db.tasks) :
                \A i \in task_of_user(db, A, t), j \in 1..Len(db.tasks) :
                    ~OwnedBy(db, db.tasks[j], A) =>
                        /\ complete_task(db, i, clock + 1).tasks[j] = db.tasks[j]
                        /\ reopen_task(db, i).tasks[j] = db.tasks[j]
       /\ trace # <<>> =>
            LET R == ResolutionSteps IN
            \A n \in 1..Len(R) :
                LET e == R[n].step
                    own == OwnLabelsBefore(e.dim)
                IN  /\ \A x \in 1..Len(e.snapshot) :
                          \/ e.snapshot[x] \in own
                          \/ \E m \in 1..(n - 1) : R[m].step.candidate = e.snapshot[x]
                    /\ \/ e.result = e.candidate
                       \/ \E x \in 1..Len(e.snapshot) : e.result = e.snapshot[x]
    ]_vars

\* The completion handler of a request of user 1 got the id of user 2's open
\* task from the matcher and has returned; the task of user 2 is still open.
C30_Witness ==
    /\ pc = "post"
    /\ req.user = 1
    /\ llm = CallReturned(Match3)
    /\ ~req.log[Len(req.log)].raised
    /\ \E e \in 1..Len(trace) : trace[e].step.dim = "complete"
    /\ \E j \in 1..Len(db.tasks) :
          /\ db.tasks[j].id = 3
          /\ OwnedBy(db, db.tasks[j], 2)
          /\ db.tasks[j].status = "open"


\* The completions the requests have reported: the completion steps of the
\* trace, of _complete_tasks and of the post-processing alike.
Completions == SelectSeq(trace, LAMBDA e : e.step.dim \in {"complete", "auto"})

\* C24: nothing guards the open tasks against two requests of one owner: both
\* can load a task as open and both close it and report it.  Whenever two
\* requests have reported the same task (and whenever one has), the task is
\* done and carries a completion time.
C24_RacingCompletionsEndDone ==
    \A a \in 1..Len(Completions) :
        \A id \in Completions[a].step.matched :
            /\ Row(db.tasks, id).status = "done"
            /\ Row(db.tasks, id).completed_at # 0
            /\ Row(db.tasks, id).completed_at <= clock

\* Two requests whose open-task queries both ran before either wrote have both
\* closed and reported the same task.
C24_Witness ==
    \E a, b \in 1..Len(Completions) :
        /\ Completions[a].k # Completions[b].k
        /\ Completions[a].loaded = Completions[b].loaded
        /\ \E id \in Completions[a].step.matched \cap Completions[b].step.matched :
              /\ Row(db.tasks, id).status = "done"
              /\ Row(db.tasks, id).completed_at = clock
        /\ \A w \in Workers : pc[w] = "done"


\* The task rows of the owner, and the rows the requests have written, each
\* with the trace step that wrote it.
OwnerRows == {i \in 1..Len(db.tasks) : OwnedBy(db, db.tasks[i], Owner)}
WrittenBy(i) == {n \in 1..Len(trace) : trace[n].step.dim = "group"
                                         /\ trace[n].step.row = db.tasks[i].id}

\* Row j brought a new spelling of a group into the owner's storage while row
\* i, stored before it, carries another letter-case variant of the same group.
SecondVariant(i, j) ==
    /\ i < j
    /\ SameIgnoringCase(db.tasks[i].group, db.tasks[j].group)
    /\ db.tasks[i].group # db.tasks[j].group
    /\ \A h \in OwnerRows : h < j => db.tasks[h].group # db.tasks[j].group

\* C25: normalization of group labels is not exclusive between requests.  A
\* request stores a second letter-case variant of a group of the owner only
\* when it loaded its snapshot before the row with the first variant was
\* committed; a request that loads its snapshot after that commit reuses the
\* stored spelling.  So two interleaved requests can leave both variants.
C25_SecondVariantOnlyFromStaleSnapshot ==
    \A i, j \in OwnerRows :
        \A n \in WrittenBy(j) :
            SecondVariant(i, j) =>
                /\ trace[n].loaded < i
                /\ \A x \in 1..Len(trace[n].step.snapshot) :
                      ~SameIgnoringCase(trace[n].step.snapshot[x], db.tasks[i].group)

\* Two create requests of the owner each loaded an empty snapshot before the
\* other committed, each asked for its own spelling of a group the owner did
\* not have, and storage holds both spellings.
C25_Witness ==
    /\ \A w \in Workers : pc[w] = "done" /\ ~outcome[w].raised
    /\ \E i, j \in OwnerRows :
          /\ SecondVariant(i, j)
          /\ \E m \in WrittenBy(i), n \in WrittenBy(j) :
                /\ trace[m].k # trace[n].k
                /\ trace[m].loaded = 0 /\ trace[n].loaded = 0
                /\ trace[m].step.candidate = db.tasks[i].group
                /\ trace[n].step.candidate = db.tasks[j].group


\* A calendar intent with well-formed times has been handled.
CalendarCall == pc = "called" /\ req.intent \in {IntentCalendar, IntentCalendarQuiet}

\* C32: a calendar intent never fails because the external calendar is
\* unavailable: the handler returns, the Record and its CalendarEvent are
\* persisted, the event carries an external id and the confirmation says
\* "Added to your calendar." only when Google created the event, and "Texted
\* Johnny." appears only when notify_partner was requested and the SMS was
\* sent.
C32_CalendarSurvivesGoogle ==
    CalendarCall =>
        /\ ~outcome.raised
        /\ Len(trace) = 1
        /\ \E i \in 1..Len(db.entries), j \in 1..Len(db.calendar) :
              /\ db.entries[i].id = outcome.entry_id
              /\ db.entries[i].module = JStr("calendar")
              /\ db.calendar[j].entry_id = outcome.entry_id
              /\ (db.calendar[j].google_event_id # 0) = trace[1].step.added
              /\ db.calendar[j].sms_sent = trace[1].step.texted
              /\ trace[1].step.texted =>
                    Truthy(Get(req.intent.kv["data"], "notify_partner", JNum(0)))


\* The task is in the trash: its Record carries a soft-delete timestamp.
InTrash(id) == Row(db.entries, Row(db.tasks, id).entry_id).deleted_at # 0

\* C34: a task whose Record is soft-deleted is no completion candidate: no
\* completion of a request, by the completion handler or by the
\* post-processing, closes and reports a task that is in the trash.
C34_TrashedTaskIsNoCandidate ==
    \A n \in 1..Len(trace) :
        trace[n].step.dim \in {"complete", "auto"} =>
            \A id \in trace[n].step.matched : ~InTrash(id)


\* C37: a failing intent is all-or-nothing: when the handler of intent k has
\* raised (the response holds "Error processing <module>" at position k), no
\* row that this handler wrote is persisted.
C37_FailedIntentPersistsNothing ==
    \A k \in 1..Len(req.log) :
        req.log[k].raised =>
            \A n \in 1..Len(trace) :
                (trace[n].k = k /\ trace[n].step.dim \in {"group", "category", "topic"}) =>
                    trace[n].step.row \notin Ids(TableOf(trace[n].step.dim))


\* Some task goes from done back to open in this step.
Reopens == \E i \in 1..Len(db.tasks) :
              db.tasks[i].status = "done" /\ db'.tasks[i].status = "open"

\* C38: with requests one after the other, completion by the pipeline is
\* monotonic: no step of process_input changes a task that is done, neither
\* its status nor its completed_at; a task goes from done to open only in a
\* step of the dashboard's reopen.
C38_PipelineCompletionIsMonotonic ==
    [][/\ PipelineStep =>
            \A i \in 1..Len(db.tasks) :
                db.tasks[i].status = "done" => db'.tasks[i] = db.tasks[i]
       /\ Reopens =>
            /\ pc = "idle" /\ pc' = "idle"
            /\ \E user \in Users, task_id \in Ids(db.tasks) :
                 \E i \in task_of_user(db, user, task_id) : db' = reopen_task(db, i)
    ]_vars

\* The matcher of a completion named an open task and a task that was done
\* since before the request: the first is closed now, the second still has
\* the completion time it had.
C38_Witness ==
    /\ pc = "post"
    /\ llm = CallReturned(Match12)
    /\ \E n \in 1..Len(trace) :
          trace[n].step.dim = "complete" /\ trace[n].step.matched = {1}
    /\ Len(db.tasks) >= 2
    /\ db.tasks[1].status = "done" /\ db.tasks[1].completed_at = clock
    /\ db.tasks[2].status = "done" /\ db.tasks[2].completed_at = 4
    /\ clock > 4


\* The Record a logged step of a handler belongs to.
EntryOf(e) ==
    IF e.step.dim \in {"group", "category", "topic"}
    THEN Row(TableOf(e.step.dim), e.step.row).entry_id
    ELSE e.step.entry

\* The steps in which the handlers that returned persisted a Record.
PersistingSteps ==
    SelectSeq(trace, LAMBDA e : e.k # 0 /\ e.step.dim # "auto" /\ ~req.log[e.k].raised)

\* C35: whenever a handler of the batch persisted a Record, the entry_id that
\* process_input returns is the id of the first Record of the earliest intent
\* that persisted one: an earlier intent that persisted nothing does not mask
\* it.
C35_ReturnsFirstPersistedRecord ==
    (pc = "done" /\ outcome.status = "returned" /\ PersistingSteps # <<>>) =>
        outcome.entry_id = EntryOf(PersistingSteps[1])


\* C36: within one request a task is completed and reported at most once.  The
\* tasks that the auto-completion pass reports are tasks of the requester
\* that were open when it ran (tasks created by earlier intents of the batch
\* included), it marks them done, and none of them was completed by an
\* explicit completion intent of the same batch.
C36_CompletedAtMostOncePerRequest ==
    [][(pc = "post" /\ Len(trace') > Len(trace)) =>
          LET auto == trace'[Len(trace')].step IN
          /\ auto.dim = "auto"
          /\ \A id \in auto.matched :
                /\ id \in Ids(db.tasks)
                /\ Row(db.tasks, id).status = "open"
                /\ OwnedBy(db, Row(db.tasks, id), req.user)
                /\ Row(db'.tasks, id).status = "done"
                /\ \A n \in 1..Len(trace) :
                      trace[n].step.dim = "complete" => id \notin trace[n].step.matched]_vars

C36_Witness ==
    /\ pc = "done"
    /\ req.raw.text = RawCompleteJournal
    /\ llm = CallReturned(Match12)
    /\ Len(trace) >= 2
    /\ \E n \in 1..Len(trace) :
          trace[n].step.dim = "complete" /\ trace[n].step.matched = {1}
    /\ trace[Len(trace)].step.dim = "auto"
    /\ trace[Len(trace)].step.matched = {2}


\* Two rows of the tasks table whose groups are equal ignoring case but
\* different as strings.
CaseSplit(i, j) ==
    /\ IsStr(db.tasks[i].group) /\ IsStr(db.tasks[j].group)
    /\ Lower(db.tasks[i].group.s) = Lower(db.tasks[j].group.s)
    /\ db.tasks[i].group # db.tasks[j].group

\* C39: from storage in which no two task groups of an owner differ only by
\* letter case, requests handled one after the other keep it so: no two
\* persisted tasks of the same owner have groups that are equal ignoring case
\* but different as strings.
C39_NoCaseSplitGroups ==
    \A user \in Users : \A i, j \in 1..Len(db.tasks) :
        (OwnedBy(db, db.tasks[i], user) /\ OwnedBy(db, db.tasks[j], user)) =>
            ~CaseSplit(i, j)

C39_Witness ==
    /\ pc = "done"
    /\ req.raw.text = RawDogJournal
    /\ req.user = 1
    /\ req.tasks0 = Len(CleanDb.tasks)
    /\ Len(db.tasks) = req.tasks0 + 1
    /\ db.tasks[Len(db.tasks)].group = JStr("Errands")
    /\ CaseSplit(3, 4)


\* C33: after any sequence of handler calls of the pipeline and dashboard
\* operations (trash, restore, permanent delete, empty-trash, purge), every
\* Task, RememberItem, JournalEntry and CalendarEvent row refers to a Record
\* that exists.
C33_SubEntitiesHaveRecords ==
    \A table \in {db.tasks, db.remember, db.journal, db.calendar} :
        \A i \in 1..Len(table) : table[i].entry_id \in Ids(db.entries)


C33_Witness ==
    /\ req = CallOf("empty", 1, 0)
    /\ outcome.deleted = {1, 2, 4}
    /\ Len(db.tasks) = 1
    /\ Len(db.remember) = 1
    /\ Len(db.journal) = 2

\* The Records of the caller that are in the trash before the step.
InTrashOf(user) ==
    {id \in Ids(db.entries) :
        Row(db.entries, id).user_id = user /\ Row(db.entries, id).deleted_at # 0}

\* C31: the automatic purge deletes exactly the caller's Records whose
\* deleted_at is more than 10 days old, empty-trash deletes exactly the
\* caller's Records with deleted_at set, and neither touches another Record:
\* one never trashed, or trashed and then restored, is not deleted by them.
C31_TrashLifecycle ==
    [][(nops' # nops /\ clock' = clock /\ req'.op \in {"purge", "empty"}) =>
          LET gone == Ids(db.entries) \ Ids(db'.entries) IN
          /\ req'.op = "purge" =>
                gone = {id \in InTrashOf(req'.user) :
                            clock - Row(db.entries, id).deleted_at > PurgeAfter}
          /\ req'.op = "empty" => gone = InTrashOf(req'.user)
          /\ \A id \in Ids(db.entries) \ gone :
                id \in Ids(db'.entries) /\ Row(db'.entries, id) = Row(db.entries, id)
          /\ \A id \in gone : Row(db.entries, id).deleted_at # 0]_vars

C31_Witness ==
    /\ req = CallOf("purge", 1, 0)
    /\ clock = 16
    /\ outcome.deleted = {1}
    /\ Row(db.entries, 2).deleted_at = 6
    /\ Row(db.entries, 3).deleted_at = 5
    /\ Row(db.entries, 4).deleted_at = 15
    /\ Row(db.entries, 5).deleted_at = 0

====
